---- MODULE Spec2Model ----
(***************************************************************************)
(* Formula E race simulation (race_sim): the per-car Attack Mode           *)
(* controller and its manager (attack_mode.py), the race-event engine      *)
(* (race_events.py), the overtaking model (overtaking.py), the RaceSimulator*)
(* step loop (race_simulator.py) and the FormulaEStrategySimulator         *)
(* (main_race_sim.py).                                                     *)
(*                                                                         *)
(* Reals are kept in fixed point; every scale is stated where it is used.  *)
(***************************************************************************)
EXTENDS Integers, Sequences, FiniteSets, TLC

VARIABLES
    attack_modes,   \* AttackModeManager.attack_modes: car id -> AttackMode fields
    am_ret,         \* the last manager call: operation, arguments, returned value
    car_states,     \* RaceSimulator.car_states: car id -> CarState fields
    race_state,     \* RaceSimulator.race_state
    race_events,    \* RaceSimulator.race_events: the RaceEvents object
    overtaking_history, \* RaceSimulator.overtaking.overtaking_history
    rs_attack_modes,    \* RaceSimulator.attack_mode_manager.attack_modes
    rs_loop,        \* run_race's locals, _last_lap_checked and the cars' masses / 880
    position_history,   \* RaceSimulator.position_history
    rs_trace,       \* what the last step did (calls made, values returned)
    fe_cars,        \* FormulaEStrategySimulator.cars: car id -> the car's dict
    fe_race_state,  \* FormulaEStrategySimulator.race_state
    fe_event_log,   \* FormulaEStrategySimulator.event_log
    np_random,      \* the state of the process-wide generator np.random
    simulators,     \* the RaceSimulator objects of one process and their draws
    ot_ret,         \* the last OvertakingModel call: arguments, returned value
    constructed,    \* the outcome of the last constructor call
    ev_ret          \* the last call of a RaceEvents object used on its own

amVars == <<attack_modes, am_ret>>
rsVars == <<car_states, race_state, race_events, overtaking_history,
            rs_attack_modes, rs_loop, position_history, rs_trace>>
feVars == <<fe_cars, fe_race_state, fe_event_log>>
detVars == <<np_random, simulators>>
otVars == <<ot_ret>>
cfgVars == <<constructed>>
evVars == <<ev_ret>>
vars == <<attack_modes, am_ret, car_states, race_state, race_events,
          overtaking_history, rs_attack_modes, rs_loop, position_history,
          rs_trace, fe_cars, fe_race_state, fe_event_log, np_random,
          simulators, ot_ret, constructed, ev_ret>>

\* The race simulators are not constructed while the Attack Mode manager is
\* exercised on its own, and the other way round.
RSIdle ==
    /\ car_states = << >>
    /\ race_state = << >>
    /\ race_events = << >>
    /\ overtaking_history = << >>
    /\ rs_attack_modes = << >>
    /\ rs_loop = << >>
    /\ position_history = << >>
    /\ rs_trace = << >>

AMIdle ==
    /\ attack_modes = << >>
    /\ am_ret = << >>

FEIdle ==
    /\ fe_cars = << >>
    /\ fe_race_state = << >>
    /\ fe_event_log = << >>

DetIdle ==
    /\ np_random = << >>
    /\ simulators = << >>

OTIdle == ot_ret = << >>

CfgIdle == constructed = << >>

EvIdle == ev_ret = << >>

(***************************************************************************)
(* attack_mode.py                                                          *)
(***************************************************************************)

\* Number of cars handed to AttackModeManager (num_cars).
AMNumCars == 1
AMCars == 0 .. (AMNumCars - 1)
\* Ids the callers try: the managed ones and one the manager does not know.
AMCallIds == 0 .. AMNumCars

\* Track length in metres handed to AttackModeManager (track_length).
AMTrackLength == 2500
\* Default activation zone: 20% .. 25% of the track.
ZoneStart == (AMTrackLength * 20) \div 100
ZoneEnd == (AMTrackLength * 25) \div 100

max_activations == 2
activation_duration == 2400
base_power_kw == 200
attack_mode_power_kw == 250

\* current_activation_start_time / current_activation_lap = None
NoneT == -1

\* Arguments the callers pass.  Times in tenths of a second
\* (activation_duration = 240.0 s = 2400); track positions in metres: before, at the
\* edges of, inside and after the zone on the first lap, and the same places
\* counted on from the start of the race (one lap later).
AMPositions == {499, 500, 625, 626, 1675, 3050}
AMTimes == {0, 2390, 2400, 4800}
AMLaps == {1}
\* activation_time_loss = uniform(0.5, 1.0) s, in hundredths of a second.
AMTimeLosses == {50, 100}

NewAttackMode(c, loss) ==
    [ car_id |-> c,
      activation_time_loss |-> loss,
      state |-> "AVAILABLE",
      activations_remaining |-> max_activations,
      current_activation_start_time |-> NoneT,
      current_activation_lap |-> NoneT,
      activation_history |-> << >> ]

\* Python's float %: for a positive modulus the result is in [0, m).
PyMod(x, m) == x % m

\* AttackMode.can_activate: <<can_activate, reason>>.
can_activate(am, current_lap, race_time, track_position) ==
    IF am.state = "USED" THEN <<FALSE, "All activations used">>
    ELSE IF am.state = "ACTIVE" THEN <<FALSE, "Already active">>
    ELSE IF am.state = "ACTIVATING" THEN <<FALSE, "Currently activating">>
    ELSE LET zone_length == ZoneEnd - ZoneStart
             position_in_zone == PyMod(track_position, zone_length + 1000)
         IN  IF ~(ZoneStart <= position_in_zone /\ position_in_zone <= ZoneEnd)
             THEN <<FALSE, "Not in activation zone">>
             ELSE <<TRUE, "Can activate">>

\* Seeded fault: an expired attack mode always becomes AVAILABLE again.
ExpiredState_AlwaysAvailable(am) == "AVAILABLE"

\* The state AttackMode.update leaves once the duration has expired.
ExpiredState(am) ==
    IF am.activations_remaining > 0 THEN "AVAILABLE" ELSE "USED"

\* activate returning after its first assignment of the state.
activate_StopsActivating(am, current_lap, race_time, track_position) ==
    IF ~can_activate(am, current_lap, race_time, track_position)[1]
    THEN <<am, FALSE>>
    ELSE << [am EXCEPT
               !.state = "ACTIVATING",
               !.current_activation_start_time = race_time,
               !.current_activation_lap = current_lap], TRUE >>

\* AttackMode.activate: <<controller after the call, returned value>>.
activate(am, current_lap, race_time, track_position) ==
    IF ~can_activate(am, current_lap, race_time, track_position)[1]
    THEN <<am, FALSE>>
    ELSE << [am EXCEPT
               !.state = "ACTIVE",
               !.current_activation_start_time = race_time,
               !.current_activation_lap = current_lap,
               !.activations_remaining = @ - 1,
               !.activation_history = Append(@,
                   [ car_id |-> am.car_id,
                     activation_lap |-> current_lap,
                     activation_time |-> race_time,
                     duration |-> activation_duration,
                     time_loss |-> am.activation_time_loss,
                     power_boost |-> attack_mode_power_kw - base_power_kw ])],
            TRUE >>

\* update letting attack mode run until the duration has been exceeded.
update_ExpiresLate(am, race_time) ==
    IF /\ am.state = "ACTIVE"
       /\ am.current_activation_start_time # NoneT
       /\ race_time - am.current_activation_start_time > activation_duration
    THEN << [am EXCEPT !.state = ExpiredState(am),
                       !.current_activation_start_time = NoneT], TRUE >>
    ELSE <<am, FALSE>>

\* AttackMode.update: <<controller after the call, returned value>>.
update(am, race_time) ==
    IF /\ am.state = "ACTIVE"
       /\ am.current_activation_start_time # NoneT
       /\ race_time - am.current_activation_start_time >= activation_duration
    THEN << [am EXCEPT !.state = ExpiredState(am),
                       !.current_activation_start_time = NoneT], TRUE >>
    ELSE <<am, FALSE>>

is_active(am) == am.state = "ACTIVE"

get_power_kw(am) ==
    IF is_active(am) THEN attack_mode_power_kw ELSE base_power_kw

\* AttackModeManager.__init__
AMInit ==
    /\ attack_modes \in { f \in [AMCars -> [ car_id : AMCars,
                                            activation_time_loss : AMTimeLosses,
                                            state : {"AVAILABLE"},
                                            activations_remaining : {max_activations},
                                            current_activation_start_time : {NoneT},
                                            current_activation_lap : {NoneT},
                                            activation_history : { << >> } ]] :
                            \A c \in AMCars : f[c].car_id = c }
    /\ am_ret = [op |-> "init", car |-> NoneT, pos |-> NoneT,
                 before |-> "AVAILABLE", ok |-> FALSE, reason |-> ""]
    /\ RSIdle
    /\ FEIdle
    /\ DetIdle
    /\ OTIdle
    /\ CfgIdle
    /\ EvIdle

\* AttackModeManager.can_activate
MgrCanActivate(id, lap, t, pos) ==
    /\ am_ret' =
         IF id \notin AMCars
         THEN [op |-> "can_activate", car |-> id, pos |-> pos,
               before |-> "NONE", ok |-> FALSE, reason |-> "Invalid car ID"]
         ELSE LET r == can_activate(attack_modes[id], lap, t, pos)
              IN  [op |-> "can_activate", car |-> id, pos |-> pos,
                   before |-> attack_modes[id].state, ok |-> r[1], reason |-> r[2]]
    /\ UNCHANGED attack_modes
    /\ UNCHANGED <<rsVars, feVars, detVars, otVars, cfgVars, evVars>>

\* AttackModeManager.activate
MgrActivate(id, lap, t, pos) ==
    IF id \notin AMCars
    THEN /\ am_ret' = [op |-> "activate", car |-> id, pos |-> pos,
                       before |-> "NONE", ok |-> FALSE, reason |-> ""]
         /\ UNCHANGED attack_modes
         /\ UNCHANGED <<rsVars, feVars, detVars, otVars, cfgVars, evVars>>
    ELSE LET r == activate(attack_modes[id], lap, t, pos)
         IN  /\ attack_modes' = [attack_modes EXCEPT ![id] = r[1]]
             /\ am_ret' = [op |-> "activate", car |-> id, pos |-> pos,
                           before |-> attack_modes[id].state, ok |-> r[2],
                           reason |-> ""]
             /\ UNCHANGED <<rsVars, feVars, detVars, otVars, cfgVars, evVars>>

\* AttackModeManager.update_all
update_all(modes, race_time) ==
    [c \in DOMAIN modes |-> update(modes[c], race_time)[1]]

MgrUpdateAll(t) ==
    /\ attack_modes' = update_all(attack_modes, t)
    /\ am_ret' = [op |-> "update_all", car |-> NoneT, pos |-> NoneT,
                  before |-> "NONE", ok |-> FALSE, reason |-> "",
                  race_time |-> t]
    /\ UNCHANGED <<rsVars, feVars, detVars, otVars, cfgVars, evVars>>

\* AttackModeManager.is_active: the returned value in ok.
MgrIsActive(id) ==
    /\ DOMAIN attack_modes # {}
    /\ am_ret' = [op |-> "is_active", car |-> id, pos |-> NoneT,
                  before |-> IF id \in AMCars THEN attack_modes[id].state ELSE "NONE",
                  ok |-> IF id \notin AMCars THEN FALSE
                         ELSE is_active(attack_modes[id]),
                  reason |-> ""]
    /\ UNCHANGED attack_modes
    /\ UNCHANGED <<rsVars, feVars, detVars, otVars, cfgVars, evVars>>

\* AttackModeManager.get_power_kw and get_activations_remaining: the returned
\* value in value.
MgrGet(op, id) ==
    /\ DOMAIN attack_modes # {}
    /\ am_ret' = [op |-> op, car |-> id, pos |-> NoneT,
                  before |-> IF id \in AMCars THEN attack_modes[id].state ELSE "NONE",
                  ok |-> FALSE, reason |-> "",
                  value |-> IF op = "get_power_kw"
                            THEN IF id \notin AMCars THEN 200
                                 ELSE get_power_kw(attack_modes[id])
                            ELSE IF id \notin AMCars THEN 0
                                 ELSE attack_modes[id].activations_remaining]
    /\ UNCHANGED attack_modes
    /\ UNCHANGED <<rsVars, feVars, detVars, otVars, cfgVars, evVars>>

AMNext ==
    \/ \E id \in AMCallIds, lap \in AMLaps, t \in AMTimes, pos \in AMPositions :
          MgrCanActivate(id, lap, t, pos)
    \/ \E id \in AMCallIds, lap \in AMLaps, t \in AMTimes, pos \in AMPositions :
          MgrActivate(id, lap, t, pos)
    \/ \E t \in AMTimes : MgrUpdateAll(t)
    \/ \E id \in AMCallIds : MgrIsActive(id)
    \/ \E id \in AMCallIds, op \in {"get_power_kw", "get_activations_remaining"} :
          MgrGet(op, id)

SpecAM == AMInit /\ [][AMNext]_vars

(***************************************************************************)
(* race_events.py                                                          *)
(***************************************************************************)

\* np.random.randint(3, 9): the laps a safety car stays out.
SCDurations == 3 .. 8
\* 1.0 - np.random.uniform(0.15, 0.30): the friction once it rains, in
\* hundredths (the ends of the interval).
WetGrip == {70, 85}
\* np.random.uniform(0.85, 1.0): the friction once the track has dried.
DryGrip == {85, 100}
\* Random trials of one run that may come out below their probability
\* (safety car, crash, safety car after a crash, weather, overtake).
MaxHits == 2

\* np.clip
Clip(x, lo, hi) == IF x < lo THEN lo ELSE IF x > hi THEN hi ELSE x

\* RaceEvents.__init__.  hits counts the trials that came out true so far,
\* budget is the number of them the run may see.
NewRaceEvents ==
    [ safety_car_state |-> "CLEAR",
      safety_car_active |-> FALSE,
      safety_car_laps_remaining |-> 0,
      safety_car_deployment_lap |-> NoneT,
      weather_dry |-> TRUE,
      mu_weather |-> 100,
      event_log |-> << >>,
      crashed_cars |-> {},
      total_safety_cars |-> 0,
      total_crashes |-> 0,
      hits |-> 0,
      budget |-> MaxHits ]

\* A random trial may still come out below its probability.
MayHit(ev) == ev.hits < ev.budget

\* RaceEvents._deploy_safety_car, the duration drawn being laps.
_deploy_safety_car(ev, lap, race_time, laps) ==
    [ev EXCEPT !.safety_car_active = TRUE,
               !.safety_car_state = "DEPLOYED",
               !.safety_car_deployment_lap = lap,
               !.safety_car_laps_remaining = laps,
               !.total_safety_cars = @ + 1,
               !.event_log = Append(@, [ event_type |-> "safety_car",
                                         timestamp |-> race_time,
                                         car_id |-> NoneT,
                                         lap |-> lap,
                                         laps |-> laps ]),
               !.hits = @ + 1]

\* RaceEvents._register_crash
_register_crash(ev, car_id, race_time) ==
    [ev EXCEPT !.crashed_cars = @ \cup {car_id},
               !.total_crashes = @ + 1,
               !.event_log = Append(@, [ event_type |-> "crash",
                                         timestamp |-> race_time,
                                         car_id |-> car_id,
                                         lap |-> NoneT,
                                         laps |-> NoneT ]),
               !.hits = @ + 1]

\* _change_weather taking the grip reduction off the current friction.
_change_weather_Cumulative(ev) ==
    IF ev.weather_dry
    THEN { [ev EXCEPT !.weather_dry = FALSE,
                      !.mu_weather = Clip(@ - (100 - mu), 50, 100),
                      !.hits = @ + 1] : mu \in WetGrip }
    ELSE { [ev EXCEPT !.mu_weather = Clip(@, 50, 100), !.hits = @ + 1] }
         \cup { [ev EXCEPT !.weather_dry = TRUE,
                           !.mu_weather = Clip(mu, 50, 100),
                           !.hits = @ + 1] : mu \in DryGrip }

\* RaceEvents._change_weather: the states it may leave.
_change_weather(ev) ==
    IF ev.weather_dry
    THEN { [ev EXCEPT !.weather_dry = FALSE,
                      !.mu_weather = Clip(mu, 50, 100),
                      !.hits = @ + 1] : mu \in WetGrip }
    ELSE { [ev EXCEPT !.mu_weather = Clip(@, 50, 100), !.hits = @ + 1] }
         \cup { [ev EXCEPT !.weather_dry = TRUE,
                           !.mu_weather = Clip(mu, 50, 100),
                           !.hits = @ + 1] : mu \in DryGrip }

\* check_lap_events' opening trial deploying whether or not a safety car is
\* already out.
SafetyCarTrial_WhileActive(ev, current_lap, race_time) ==
    { <<ev, FALSE>> } \cup
    ( IF MayHit(ev)
      THEN { <<_deploy_safety_car(ev, current_lap, race_time, d), TRUE>> :
                 d \in SCDurations }
      ELSE {} )

\* The safety-car trial that opens check_lap_events: the states it may leave,
\* each with the value of events['safety_car_deployed'].
SafetyCarTrial(ev, current_lap, race_time) ==
    { <<ev, FALSE>> } \cup
    ( IF ~ev.safety_car_active /\ MayHit(ev)
      THEN { <<_deploy_safety_car(ev, current_lap, race_time, d), TRUE>> :
                 d \in SCDurations }
      ELSE {} )

\* The crash loop of check_lap_events over the cars still to visit: the
\* outcomes <<events object, crashes, safety_car_deployed>>.
RECURSIVE CrashTrials(_, _, _, _, _, _)
CrashTrials(ev, crashes, deployed, current_lap, race_time, todo) ==
    IF todo = << >>
    THEN { <<ev, crashes, deployed>> }
    ELSE LET car_id == Head(todo)
             rest == Tail(todo)
             crashed == _register_crash(ev, car_id, race_time)
         IN  CrashTrials(ev, crashes, deployed, current_lap, race_time, rest)
             \cup
             ( IF car_id \notin ev.crashed_cars /\ MayHit(ev)
               THEN CrashTrials(crashed, Append(crashes, car_id), deployed,
                                current_lap, race_time, rest)
                    \cup
                    ( IF ~crashed.safety_car_active /\ MayHit(crashed)
                      THEN UNION { CrashTrials(
                                     _deploy_safety_car(crashed, current_lap,
                                                        race_time, d),
                                     Append(crashes, car_id), TRUE,
                                     current_lap, race_time, rest) :
                                   d \in SCDurations }
                      ELSE {} )
               ELSE {} )

\* RaceEvents.check_lap_events: the outcomes, each the events object after
\* the call and the dictionary returned.
check_lap_events(ev, current_lap, race_time, active_cars) ==
    UNION { UNION {
        { [ ev |-> c[1], safety_car_deployed |-> c[3], crashes |-> c[2],
            weather_changed |-> FALSE, new_mu_weather |-> ev.mu_weather ] }
        \cup
        ( IF MayHit(c[1])
          THEN { [ ev |-> w, safety_car_deployed |-> c[3], crashes |-> c[2],
                   weather_changed |-> TRUE, new_mu_weather |-> w.mu_weather ] :
                 w \in _change_weather(c[1]) }
          ELSE {} ) :
        c \in CrashTrials(s[1], << >>, s[2], current_lap, race_time, active_cars) } :
        s \in SafetyCarTrial(ev, current_lap, race_time) }

\* update_safety_car clearing safety_car_active as soon as DEPLOYED ends.
update_safety_car_ClearsEarly(ev, current_lap) ==
    IF ~ev.safety_car_active
    THEN <<ev, FALSE>>
    ELSE LET remaining == ev.safety_car_laps_remaining - 1
         IN  IF remaining <= 0 /\ ev.safety_car_state = "DEPLOYED"
             THEN << [ev EXCEPT !.safety_car_state = "RETURNING",
                                !.safety_car_active = FALSE,
                                !.safety_car_laps_remaining = 1], TRUE >>
             ELSE IF remaining <= 0 /\ ev.safety_car_state = "RETURNING"
             THEN << [ev EXCEPT !.safety_car_active = FALSE,
                                !.safety_car_state = "CLEAR",
                                !.safety_car_laps_remaining = 0], TRUE >>
             ELSE << [ev EXCEPT !.safety_car_laps_remaining = remaining], FALSE >>

\* update_safety_car testing the laps remaining before it counts the call.
update_safety_car_TestsFirst(ev, current_lap) ==
    IF ~ev.safety_car_active
    THEN <<ev, FALSE>>
    ELSE LET remaining == ev.safety_car_laps_remaining
         IN  IF remaining <= 0 /\ ev.safety_car_state = "DEPLOYED"
             THEN << [ev EXCEPT !.safety_car_state = "RETURNING",
                                !.safety_car_laps_remaining = 0], TRUE >>
             ELSE IF remaining <= 0 /\ ev.safety_car_state = "RETURNING"
             THEN << [ev EXCEPT !.safety_car_active = FALSE,
                                !.safety_car_state = "CLEAR",
                                !.safety_car_laps_remaining = 0], TRUE >>
             ELSE << [ev EXCEPT !.safety_car_laps_remaining = remaining - 1],
                     FALSE >>

\* RaceEvents.update_safety_car: <<events object after the call, returned value>>.
update_safety_car(ev, current_lap) ==
    IF ~ev.safety_car_active
    THEN <<ev, FALSE>>
    ELSE LET remaining == ev.safety_car_laps_remaining - 1
         IN  IF remaining <= 0 /\ ev.safety_car_state = "DEPLOYED"
             THEN << [ev EXCEPT !.safety_car_state = "RETURNING",
                                !.safety_car_laps_remaining = 1], TRUE >>
             ELSE IF remaining <= 0 /\ ev.safety_car_state = "RETURNING"
             THEN << [ev EXCEPT !.safety_car_active = FALSE,
                                !.safety_car_state = "CLEAR",
                                !.safety_car_laps_remaining = 0], TRUE >>
             ELSE << [ev EXCEPT !.safety_car_laps_remaining = remaining], FALSE >>

\* 80.0 / 3.6 m/s, in units of 1/18 m/s.
safety_car_speed == 400
\* np.inf
SpeedInf == 1000000

\* RaceEvents.get_safety_car_speed
get_safety_car_speed(ev) ==
    IF ev.safety_car_active THEN safety_car_speed ELSE SpeedInf

(***************************************************************************)
(* race_events.py: a RaceEvents object called on its own                   *)
(***************************************************************************)

\* current_lap handed to check_lap_events and update_safety_car.
EvLaps == {1, 2}
\* active_cars handed to check_lap_events.
EvActiveCars == { << >>, <<0>>, <<0, 1>> }

\* RaceEvents.__init__
\* Trials of a RaceEvents object used on its own that may come out below
\* their probability.
EvMaxHits == 3

EvInit ==
    /\ race_events = [NewRaceEvents EXCEPT !.budget = EvMaxHits]
    /\ car_states = << >>
    /\ race_state = << >>
    /\ overtaking_history = << >>
    /\ rs_attack_modes = << >>
    /\ rs_loop = << >>
    /\ position_history = << >>
    /\ rs_trace = << >>
    /\ AMIdle
    /\ FEIdle
    /\ DetIdle
    /\ OTIdle
    /\ CfgIdle
    /\ ev_ret = [op |-> "__init__", calls |-> 0]

evOthers == <<amVars, car_states, race_state, overtaking_history,
              rs_attack_modes, rs_loop, position_history, rs_trace, feVars,
              detVars, otVars, cfgVars>>

\* A call of RaceEvents.check_lap_events.  ev_ret.calls counts the calls of
\* update_safety_car made with a safety car out since the last deployment.
EvCheckLapEvents(current_lap, active_cars) ==
    /\ race_events # << >>
    /\ car_states = << >>
    /\ \E out \in check_lap_events(race_events, current_lap, 0, active_cars) :
          /\ race_events' = out.ev
          /\ ev_ret' = [ op |-> "check_lap_events",
                         calls |-> IF out.safety_car_deployed
                                   THEN 0 ELSE ev_ret.calls,
                         safety_car_deployed |-> out.safety_car_deployed,
                         crashes |-> out.crashes,
                         weather_changed |-> out.weather_changed ]
    /\ UNCHANGED evOthers

\* A call of RaceEvents.update_safety_car.
EvUpdateSafetyCar(current_lap) ==
    /\ race_events # << >>
    /\ car_states = << >>
    /\ LET r == update_safety_car(race_events, current_lap)
       IN  /\ race_events' = r[1]
           /\ ev_ret' = [ op |-> "update_safety_car",
                          calls |-> IF race_events.safety_car_active
                                    THEN ev_ret.calls + 1 ELSE ev_ret.calls,
                          changed |-> r[2] ]
    /\ UNCHANGED evOthers

\* A weather trial of check_lap_events that comes out below its probability.
EvChangeWeather ==
    /\ race_events # << >>
    /\ car_states = << >>
    /\ race_events.hits < EvMaxHits
    /\ race_events' \in _change_weather(race_events)
    /\ ev_ret' = [op |-> "_change_weather", calls |-> ev_ret.calls]
    /\ UNCHANGED evOthers

EvNext ==
    \/ \E lap \in EvLaps, cars \in EvActiveCars : EvCheckLapEvents(lap, cars)
    \/ \E lap \in EvLaps : EvUpdateSafetyCar(lap)
    \/ EvChangeWeather

SpecEv == EvInit /\ [][EvNext]_vars

(***************************************************************************)
(* overtaking.py                                                           *)
(*                                                                         *)
(* Speeds in m/s are kept in units of 1/18 m/s (50 m/s = 900), speeds in   *)
(* km/h in tenths (5 km/h = 50), times in milliseconds, a gap in seconds   *)
(* as a fraction <<numerator, denominator>>.                               *)
(***************************************************************************)

\* min_speed_diff = 5.0 km/h
min_speed_diff == 50
\* attack_mode_speed_advantage = 8.0 km/h
attack_mode_speed_advantage == 80
\* slipstream_distance = 1.0 s
slipstream_distance == 1
\* overtaking_distance = 250.0 m, in units of 1/18 m times 1000 (for ms)
overtaking_distance == 4500000

\* speed * 3.6: m/s (1/18 m/s units) to km/h (tenths).
ToKmh(v) == (v * 36) \div 18

\* gap_seconds <= bound, gap_seconds a fraction.
GapLeq(gap, bound) == gap[1] <= bound * gap[2]
GapLess(gap, bound) == gap[1] < bound * gap[2]

\* The table with its last row starting above 15 km/h.
success_probabilities_Gap ==
    << <<50, 100, 20>>, <<100, 150, 50>>, <<151, SpeedInf, 80>> >>

\* success_probabilities: (min_speed_diff, max_speed_diff, probability in %)
success_probabilities ==
    << <<50, 100, 20>>, <<100, 150, 50>>, <<150, SpeedInf, 80>> >>

\* get_overtaking_success_probability without its minimum-differential test.
get_overtaking_success_probability_NoMinimum(speed_diff_kmh, attacker_has_attack_mode, defender_has_attack_mode) ==
    LET d1 == IF attacker_has_attack_mode
              THEN speed_diff_kmh + attack_mode_speed_advantage
              ELSE speed_diff_kmh
        d2 == IF defender_has_attack_mode
              THEN d1 - attack_mode_speed_advantage
              ELSE d1
        rows == { i \in DOMAIN success_probabilities :
                    /\ success_probabilities[i][1] <= d2
                    /\ d2 < success_probabilities[i][2] }
    IN  IF rows # {}
        THEN success_probabilities[CHOOSE i \in rows : \A j \in rows : i <= j][3]
        ELSE 95

\* OvertakingModel.get_overtaking_success_probability, in percent.
get_overtaking_success_probability(speed_diff_kmh, attacker_has_attack_mode, defender_has_attack_mode) ==
    LET d1 == IF attacker_has_attack_mode
              THEN speed_diff_kmh + attack_mode_speed_advantage
              ELSE speed_diff_kmh
        d2 == IF defender_has_attack_mode
              THEN d1 - attack_mode_speed_advantage
              ELSE d1
        rows == { i \in DOMAIN success_probabilities :
                    /\ success_probabilities[i][1] <= d2
                    /\ d2 < success_probabilities[i][2] }
    IN  IF d2 < min_speed_diff THEN 0
        ELSE IF rows # {}
        THEN success_probabilities[CHOOSE i \in rows : \A j \in rows : i <= j][3]
        ELSE 95

\* The time gain of a successful overtake, in ms:
\* max(0, 250 / (attacker_speed + speed_diff_ms / 2) - 250 / defender_speed).
TimeGain(attacker_speed, defender_speed) ==
    LET twice == 2 * attacker_speed + (attacker_speed - defender_speed)
        gain == (2 * overtaking_distance) \div twice
                  - overtaking_distance \div defender_speed
    IN  IF gain > 0 THEN gain ELSE 0

\* OvertakingModel.attempt_overtake: the outcomes, each the history after the
\* call and the dictionary returned (raised: the call ended in
\* ZeroDivisionError instead of returning).
attempt_overtake(history, attacker_id, defender_id, attacker_speed, defender_speed, gap_seconds, attacker_has_attack_mode, defender_has_attack_mode, timestamp) ==
    LET speed_diff_kmh == ToKmh(attacker_speed) - ToKmh(defender_speed)
        slipstream_active == GapLeq(gap_seconds, slipstream_distance)
        success_prob == get_overtaking_success_probability(
                            speed_diff_kmh, attacker_has_attack_mode,
                            defender_has_attack_mode)
        Outcome(success) ==
            IF success /\ defender_speed = 0
            THEN [ history |-> history,
                   result |-> [ success |-> FALSE,
                                speed_differential_kmh |-> speed_diff_kmh,
                                time_gain |-> 0,
                                slipstream_active |-> slipstream_active,
                                raised |-> TRUE ] ]
            ELSE LET time_gain == IF success
                                  THEN TimeGain(attacker_speed, defender_speed)
                                  ELSE 0
                 IN  [ history |-> Append(history,
                                     [ attacker_id |-> attacker_id,
                                       defender_id |-> defender_id,
                                       success |-> success,
                                       speed_differential |-> speed_diff_kmh,
                                       time_gain |-> time_gain,
                                       timestamp |-> timestamp ]),
                       result |-> [ success |-> success,
                                    speed_differential_kmh |-> speed_diff_kmh,
                                    time_gain |-> time_gain,
                                    slipstream_active |-> slipstream_active,
                                    raised |-> FALSE ] ]
    IN  IF speed_diff_kmh < min_speed_diff
        THEN { [ history |-> history,
                 result |-> [ success |-> FALSE,
                              speed_differential_kmh |-> speed_diff_kmh,
                              time_gain |-> 0,
                              slipstream_active |-> slipstream_active,
                              raised |-> FALSE ] ] }
        ELSE { Outcome(success) :
                 success \in { b \in BOOLEAN : (b => success_prob > 0)
                                               /\ (~b => success_prob < 100) } }

(***************************************************************************)
(* overtaking.py: an OvertakingModel called on its own                     *)
(***************************************************************************)

\* attempt_overtake calls made on one model.
OTMaxCalls == 2
\* attacker_speed, defender_speed in units of 1/18 m/s: 50 m/s and 4.8, 5,
\* 12, 13, 15 and 20 km/h more; a standing defender.
OTAttackerSpeeds == {900, 924, 925, 960, 965, 975, 1000}
OTDefenderSpeeds == {0, 900}
\* gap_seconds: 0.8 s and 1.5 s.
OTGaps == { <<4, 5>>, <<3, 2>> }
\* speed_diff_kmh handed to get_overtaking_success_probability, in tenths.
OTSpeedDiffs == {-100, 0, 49, 50, 99, 100, 149, 150, 151, 500, 3000}

\* OvertakingModel.__init__
OTInit ==
    /\ overtaking_history = << >>
    /\ ot_ret = [op |-> "init", calls |-> 0]
    /\ AMIdle
    /\ car_states = << >>
    /\ race_state = << >>
    /\ race_events = << >>
    /\ rs_attack_modes = << >>
    /\ rs_loop = << >>
    /\ position_history = << >>
    /\ rs_trace = << >>
    /\ FEIdle
    /\ DetIdle
    /\ CfgIdle
    /\ EvIdle

otOthers == <<amVars, car_states, race_state, race_events, rs_attack_modes,
              rs_loop, position_history, rs_trace, feVars, detVars, cfgVars,
              evVars>>

\* A call of OvertakingModel.attempt_overtake.
OTAttempt(attacker_speed, defender_speed, gap_seconds, attacker_has_attack_mode, defender_has_attack_mode) ==
    /\ ot_ret # << >>
    /\ ot_ret.calls < OTMaxCalls
    /\ \E out \in attempt_overtake(overtaking_history, 2, 1, attacker_speed,
                                   defender_speed, gap_seconds,
                                   attacker_has_attack_mode,
                                   defender_has_attack_mode, 0) :
          /\ overtaking_history' = out.history
          /\ ot_ret' = [ op |-> "attempt_overtake",
                         calls |-> ot_ret.calls + 1,
                         attacker_speed |-> attacker_speed,
                         defender_speed |-> defender_speed,
                         gap_seconds |-> gap_seconds,
                         attacker_has_attack_mode |-> attacker_has_attack_mode,
                         defender_has_attack_mode |-> defender_has_attack_mode,
                         result |-> out.result ]
    /\ UNCHANGED otOthers

\* A call of OvertakingModel.get_overtaking_success_probability.
OTProbability(speed_diff_kmh, attacker_has_attack_mode, defender_has_attack_mode) ==
    /\ ot_ret # << >>
    /\ ot_ret' = [ op |-> "get_overtaking_success_probability",
                   calls |-> ot_ret.calls,
                   speed_diff_kmh |-> speed_diff_kmh,
                   attacker_has_attack_mode |-> attacker_has_attack_mode,
                   defender_has_attack_mode |-> defender_has_attack_mode,
                   result |-> get_overtaking_success_probability(
                                  speed_diff_kmh, attacker_has_attack_mode,
                                  defender_has_attack_mode) ]
    /\ UNCHANGED overtaking_history
    /\ UNCHANGED otOthers

\* OvertakingModel.get_overtaking_statistics (success_rate in percent).
get_overtaking_statistics(history) ==
    LET successful == Cardinality({ i \in DOMAIN history : history[i].success })
    IN  IF history = << >>
        THEN [ total_attempts |-> 0, successful_overtakes |-> 0,
               success_rate |-> 0 ]
        ELSE [ total_attempts |-> Len(history),
               successful_overtakes |-> successful,
               success_rate |-> (successful * 100) \div Len(history) ]

\* A call of OvertakingModel.get_overtaking_statistics.
OTStatistics ==
    /\ ot_ret # << >>
    /\ ot_ret' = [ op |-> "get_overtaking_statistics",
                   calls |-> ot_ret.calls,
                   result |-> get_overtaking_statistics(overtaking_history) ]
    /\ UNCHANGED overtaking_history
    /\ UNCHANGED otOthers

OTNext ==
    \/ \E a \in OTAttackerSpeeds, d \in OTDefenderSpeeds, g \in OTGaps :
          \E am_a \in BOOLEAN, am_d \in BOOLEAN : OTAttempt(a, d, g, am_a, am_d)
    \/ \E x \in OTSpeedDiffs, am_a \in BOOLEAN, am_d \in BOOLEAN :
          OTProbability(x, am_a, am_d)
    \/ OTStatistics

SpecOT == OTInit /\ [][OTNext]_vars

(***************************************************************************)
(* race_simulator.py                                                       *)
(*                                                                         *)
(* Times in tenths of a second, speeds in units of 1/18 m/s, distances in  *)
(* units of 1/180 m (so that speed * time_step is a product of integers),  *)
(* energy in units of 1000/9 J (so that power_kw * 1000 * time_step / 0.9  *)
(* is power_kw * time_step).                                               *)
(***************************************************************************)

\* num_cars
RSNumCars == 2
RSCars == 0 .. (RSNumCars - 1)
\* time_step = 0.5 s
time_step == 5
\* track.track_length (50 m)
RSTrackLength == 9000
\* max_race_time = race_duration_minutes * 60: races of 15 s and of 23 s.
RaceDurations == {150, 230}
\* energy_remaining = 4.58e6 J
initial_energy == 41220
\* reference_speed = 50.0 m/s
reference_speed == 900
\* cars[car_id].pars_general["m"] / 880.0 in units of 1/90, per vehicle file:
\* the mass of the file times the car's draw from uniform(0.98, 1.02).  An
\* 880 kg vehicle gives 870.2 kg and 889.8 kg, a 7040 kg vehicle 6903 kg and
\* 7177 kg.
RSVehicles == { {89, 91}, {706, 734} }
\* gap sentinel 999.0 s
GapSentinel == <<999, 1>>

\* The ids of a set in ascending order (the order of the car_states dict).
RECURSIVE AscSeq(_)
AscSeq(S) ==
    IF S = {} THEN << >>
    ELSE LET m == CHOOSE x \in S : \A y \in S : x <= y
         IN  <<m>> \o AscSeq(S \ {m})

\* The sort key (lap, track_distance) of a is greater than that of b.
KeyGreater(a, b) ==
    a.lap > b.lap \/ (a.lap = b.lap /\ a.track_distance > b.track_distance)

\* The sort with cars of equal keys in descending dict order, as reversing
\* an ascending sort would leave them.
SortedCars_TiesReversed(cars, ids) ==
    LET Before(a, b) == \/ KeyGreater(cars[a], cars[b])
                        \/ (~KeyGreater(cars[b], cars[a]) /\ a > b)
    IN  [ i \in 1 .. Cardinality(ids) |->
            CHOOSE c \in ids : Cardinality({ o \in ids : Before(o, c) }) = i - 1 ]

\* sorted(..., key=(lap, track_distance), reverse=True) over the cars ids:
\* descending keys, cars with equal keys in dict order (the sort is stable).
SortedCars(cars, ids) ==
    LET Before(a, b) == \/ KeyGreater(cars[a], cars[b])
                        \/ (~KeyGreater(cars[b], cars[a]) /\ a < b)
    IN  [ i \in 1 .. Cardinality(ids) |->
            CHOOSE c \in ids : Cardinality({ o \in ids : Before(o, c) }) = i - 1 ]

\* The cars _update_positions ranks.
RankedCars(cars) == DOMAIN cars

ActiveCars(cars) == { c \in DOMAIN cars : cars[c].is_active }

\* The racing speed of _update_cars:
\* reference_speed * (1.0 + (1.0 - skill_factor) * 0.1)
RacingSpeed(skill_factor) ==
    (reference_speed * (900 + (90 - skill_factor))) \div 900

\* CarState of _initialize_cars
NewCarState(car_id) ==
    [ car_id |-> car_id,
      position |-> car_id + 1,
      lap |-> 0,
      track_distance |-> 0,
      speed |-> 0,
      energy_remaining |-> initial_energy,
      race_time |-> 0,
      gap_to_leader |-> <<0, 1>>,
      is_active |-> TRUE ]

\* RaceSimulator.__init__ and _initialize_cars, as one record.
NewRaceSimulator(skill_factor, max_race_time) ==
    [ cars |-> [c \in RSCars |-> NewCarState(c)],
      race_state |-> [ race_time |-> 0,
                       current_lap |-> 0,
                       leader_id |-> 0,
                       positions |-> << >>,
                       safety_car_active |-> FALSE,
                       weather_dry |-> TRUE,
                       mu_weather |-> 100 ],
      events |-> NewRaceEvents,
      history |-> << >>,
      attack |-> [c \in RSCars |-> NewAttackMode(c, 50)],
      loop |-> [ last_lap_checked |-> NoneT,
                 leader_finished |-> FALSE,
                 race_finished |-> FALSE,
                 raised |-> FALSE,
                 max_race_time |-> max_race_time,
                 skill_factor |-> skill_factor ],
      position_history |-> << >>,
      trace |-> [ checked |-> FALSE, crashes |-> << >>, attempts |-> << >>,
                  stored |-> FALSE ] ]

\* The head of the loop with a clock that falls back to 1.0 s after 1.5 s.
AdvanceClock_Wraps(sim) ==
    LET t == IF sim.race_state.race_time >= 15
             THEN 10
             ELSE sim.race_state.race_time + time_step
    IN  [sim EXCEPT
           !.race_state.race_time = t,
           !.loop.race_finished =
               IF t >= sim.loop.max_race_time /\ sim.loop.leader_finished THEN TRUE ELSE @,
           !.loop.leader_finished =
               IF t >= sim.loop.max_race_time /\ ~sim.loop.leader_finished THEN TRUE ELSE @,
           !.trace = [ checked |-> FALSE, crashes |-> << >>,
                       attempts |-> << >>, stored |-> FALSE ]]

\* The head of run_race's loop: the clock and the finish flags.
AdvanceClock(sim) ==
    LET t == sim.race_state.race_time + time_step
    IN  [sim EXCEPT
           !.race_state.race_time = t,
           !.loop.race_finished =
               IF t >= sim.loop.max_race_time /\ sim.loop.leader_finished THEN TRUE ELSE @,
           !.loop.leader_finished =
               IF t >= sim.loop.max_race_time /\ ~sim.loop.leader_finished THEN TRUE ELSE @,
           !.trace = [ checked |-> FALSE, crashes |-> << >>,
                       attempts |-> << >>, stored |-> FALSE ]]

\* The crashes of check_lap_events left without effect on the cars.
ApplyCrashes_Ignored(cars, crashes) == cars

\* The cars after the crashes of check_lap_events.
ApplyCrashes(cars, crashes) ==
    [c \in DOMAIN cars |->
        IF \E i \in DOMAIN crashes : crashes[i] = c
        THEN [cars[c] EXCEPT !.is_active = FALSE]
        ELSE cars[c]]

\* The safety-car part of _update_race_events.
UpdateSafetyCar(sim) ==
    LET ev == update_safety_car(sim.events, sim.race_state.current_lap)[1]
    IN  [sim EXCEPT !.events = ev,
                    !.race_state.safety_car_active = ev.safety_car_active]

\* _update_race_events asking for the lap's events on every step after the
\* first, whatever lap was checked last.
_update_race_events_EveryStep(sim) ==
    IF sim.loop.last_lap_checked = NoneT
    THEN { UpdateSafetyCar([sim EXCEPT !.loop.last_lap_checked = 0]) }
    ELSE { UpdateSafetyCar(
             [sim EXCEPT
                !.events = e.ev,
                !.cars = ApplyCrashes(@, e.crashes),
                !.race_state.mu_weather =
                    IF e.weather_changed THEN e.new_mu_weather ELSE @,
                !.loop.last_lap_checked = sim.race_state.current_lap,
                !.trace.checked = TRUE,
                !.trace.crashes = e.crashes]) :
           e \in check_lap_events(sim.events, sim.race_state.current_lap,
                                  sim.race_state.race_time,
                                  AscSeq(ActiveCars(sim.cars))) }

\* RaceSimulator._update_race_events: the simulators it may leave.
_update_race_events(sim) ==
    IF sim.loop.last_lap_checked = NoneT
    THEN { UpdateSafetyCar([sim EXCEPT !.loop.last_lap_checked = 0]) }
    ELSE IF sim.race_state.current_lap # sim.loop.last_lap_checked
    THEN { UpdateSafetyCar(
             [sim EXCEPT
                !.events = e.ev,
                !.cars = ApplyCrashes(@, e.crashes),
                !.race_state.mu_weather =
                    IF e.weather_changed THEN e.new_mu_weather ELSE @,
                !.loop.last_lap_checked = sim.race_state.current_lap,
                !.trace.checked = TRUE,
                !.trace.crashes = e.crashes]) :
           e \in check_lap_events(sim.events, sim.race_state.current_lap,
                                  sim.race_state.race_time,
                                  AscSeq(ActiveCars(sim.cars))) }
    ELSE { UpdateSafetyCar(sim) }

\* UpdateCar without the retirement of a car whose energy is used up.
UpdateCar_KeepsRacing(sim, c) ==
    LET state == sim.cars[c]
        safety_car_speed_now == get_safety_car_speed(sim.events)
        speed == IF sim.race_state.safety_car_active
                 THEN IF state.speed < safety_car_speed_now
                      THEN state.speed ELSE safety_car_speed_now
                 ELSE RacingSpeed(sim.loop.skill_factor[c])
        distance == PyMod(state.track_distance + speed * time_step, RSTrackLength)
        energy == state.energy_remaining - get_power_kw(sim.attack[c]) * time_step
    IN  IF ~state.is_active THEN state
        ELSE [state EXCEPT
                !.speed = speed,
                !.track_distance = distance,
                !.energy_remaining = IF energy <= 0 THEN 0 ELSE energy,
                !.is_active = TRUE]

\* One car of _update_cars.
UpdateCar(sim, c) ==
    LET state == sim.cars[c]
        safety_car_speed_now == get_safety_car_speed(sim.events)
        speed == IF sim.race_state.safety_car_active
                 THEN IF state.speed < safety_car_speed_now
                      THEN state.speed ELSE safety_car_speed_now
                 ELSE RacingSpeed(sim.loop.skill_factor[c])
        distance == PyMod(state.track_distance + speed * time_step, RSTrackLength)
        energy == state.energy_remaining - get_power_kw(sim.attack[c]) * time_step
    IN  IF ~state.is_active THEN state
        ELSE [state EXCEPT
                !.speed = speed,
                !.track_distance = distance,
                !.energy_remaining = IF energy <= 0 THEN 0 ELSE energy,
                !.is_active = ~(energy <= 0)]

\* RaceSimulator._update_cars
_update_cars(sim) ==
    [sim EXCEPT !.cars = [c \in DOMAIN sim.cars |-> UpdateCar(sim, c)]]

\* RaceSimulator._calculate_gaps (gap_to_leader; the gaps to the cars ahead
\* and behind are the constant 0.5).
_calculate_gaps(sim) ==
    LET leader == sim.cars[sim.race_state.leader_id]
        Gap(state) ==
            LET lap_diff == leader.lap - state.lap
                d == leader.track_distance - state.track_distance
                dist_diff == IF d < 0 THEN d + RSTrackLength ELSE d
            IN  IF state.speed > 0
                THEN <<lap_diff * RSTrackLength + dist_diff, 10 * state.speed>>
                ELSE GapSentinel
    IN  [sim EXCEPT !.cars =
           [c \in DOMAIN sim.cars |->
              IF ~sim.cars[c].is_active THEN sim.cars[c]
              ELSE IF c = sim.race_state.leader_id
              THEN [sim.cars[c] EXCEPT !.gap_to_leader = <<0, 1>>]
              ELSE [sim.cars[c] EXCEPT !.gap_to_leader = Gap(sim.cars[c])]]]

\* RaceSimulator._update_positions
_update_positions(sim) ==
    LET sorted_cars == SortedCars(sim.cars, RankedCars(sim.cars))
        PositionOf(c) == CHOOSE i \in DOMAIN sorted_cars : sorted_cars[i] = c
    IN  _calculate_gaps(
          [sim EXCEPT
             !.cars = [c \in DOMAIN sim.cars |->
                         [sim.cars[c] EXCEPT !.position = PositionOf(c)]],
             !.race_state.positions = [c \in DOMAIN sim.cars |-> PositionOf(c)],
             !.race_state.leader_id = sorted_cars[1]])

\* The swap of _check_overtaking: attacker and defender exchange position.
SwapPositions(cars, attacker_id, defender_id) ==
    [cars EXCEPT ![attacker_id].position = cars[defender_id].position,
                 ![defender_id].position = cars[attacker_id].position]

\* The loop of _check_overtaking from pair i of sorted_cars on: the outcomes
\* <<cars, overtaking history, results of this step's attempts, raised,
\* random trials that came out true so far>>.
RECURSIVE OvertakeLoop(_, _, _, _, _, _, _)
OvertakeLoop(sim, cars, history, attempts, hits, sorted_cars, i) ==
    IF i >= Len(sorted_cars)
    THEN { <<cars, history, attempts, FALSE, hits>> }
    ELSE LET defender_id == sorted_cars[i]
             attacker_id == sorted_cars[i + 1]
             attacker == cars[attacker_id]
             defender == cars[defender_id]
             gap_seconds ==
                 IF attacker.speed > 0
                 THEN <<defender.track_distance - attacker.track_distance,
                        10 * attacker.speed>>
                 ELSE GapSentinel
         IN  IF gap_seconds[1] > 0 /\ GapLess(gap_seconds, 2)
             THEN UNION {
                    IF o.result.raised
                    THEN { <<cars, o.history, attempts, TRUE, hits>> }
                    ELSE OvertakeLoop(sim,
                           IF o.result.success
                           THEN SwapPositions(cars, attacker_id, defender_id)
                           ELSE cars,
                           o.history,
                           Append(attempts,
                                  [ attacker_id |-> attacker_id,
                                    defender_id |-> defender_id,
                                    success |-> o.result.success,
                                    time_gain |-> o.result.time_gain,
                                    attacker_has_attack_mode |->
                                        is_active(sim.attack[attacker_id]),
                                    defender_has_attack_mode |->
                                        is_active(sim.attack[defender_id]),
                                    recorded |-> Len(o.history) > Len(history) ]),
                           IF o.result.success THEN hits + 1 ELSE hits,
                           sorted_cars, i + 1) :
                    o \in { x \in attempt_overtake(
                                     history, attacker_id, defender_id,
                                     attacker.speed, defender.speed,
                                     gap_seconds,
                                     is_active(sim.attack[attacker_id]),
                                     is_active(sim.attack[defender_id]),
                                     sim.race_state.race_time) :
                            x.result.success => hits < MaxHits } }
             ELSE OvertakeLoop(sim, cars, history, attempts, hits, sorted_cars,
                               i + 1)

\* RaceSimulator._check_overtaking: the simulators it may leave.
_check_overtaking(sim) ==
    { [sim EXCEPT !.cars = o[1], !.history = o[2], !.trace.attempts = o[3],
                  !.loop.raised = o[4], !.events.hits = o[5]] :
      o \in OvertakeLoop(sim, sim.cars, sim.history, << >>, sim.events.hits,
                         SortedCars(sim.cars, ActiveCars(sim.cars)), 1) }

\* The orchestrator also activating every car's attack mode, as at the start
\* of the activation zone, before it updates them.
_update_attack_modes_Activates(sim) ==
    [sim EXCEPT !.attack =
        update_all([c \in DOMAIN @ |->
                      activate(@[c], sim.cars[c].lap, sim.race_state.race_time,
                               ZoneStart)[1]],
                   sim.race_state.race_time)]

\* RaceSimulator._update_attack_modes
_update_attack_modes(sim) ==
    [sim EXCEPT !.attack = update_all(@, sim.race_state.race_time)]

\* The largest of a set of naturals, 0 for the empty set.
MaxOf(S) == IF S = {} THEN 0 ELSE CHOOSE x \in S : \A y \in S : y <= x

\* A car crossed the start/finish line in this step.
CrossedLine(state) == state.track_distance < time_step * state.speed

\* The cars _check_lap_completion looks at.
LapCheckedCars(cars) == ActiveCars(cars)

\* RaceSimulator._check_lap_completion
_check_lap_completion(sim) ==
    LET cars == [c \in DOMAIN sim.cars |->
                   IF c \in LapCheckedCars(sim.cars) /\ CrossedLine(sim.cars[c])
                   THEN [sim.cars[c] EXCEPT !.lap = @ + 1]
                   ELSE sim.cars[c]]
        laps == { cars[c].lap : c \in { x \in LapCheckedCars(sim.cars) :
                                          CrossedLine(sim.cars[x]) } }
    IN  [sim EXCEPT !.cars = cars,
                    !.race_state.current_lap =
                        IF MaxOf(laps) > @ THEN MaxOf(laps) ELSE @]

\* int(race_time) % 5 == 0
HistoryDue(race_time) == (race_time \div 10) % 5 = 0

\* RaceSimulator._store_history, when run_race calls it: the RaceState
\* snapshot of race_history and the (time, position) pairs of position_history.
_store_history(sim) ==
    IF HistoryDue(sim.race_state.race_time)
    THEN [sim EXCEPT
            !.position_history = Append(@,
                [ race_time |-> sim.race_state.race_time,
                  current_lap |-> sim.race_state.current_lap,
                  leader_id |-> sim.race_state.leader_id,
                  positions |-> sim.race_state.positions,
                  car_positions |-> [c \in DOMAIN sim.cars |->
                                        sim.cars[c].position] ]),
            !.trace.stored = TRUE]
    ELSE sim

\* One iteration of run_race's loop after the event trials and before the
\* overtaking trials, and after them.
BeforeOvertaking(sim) == _update_positions(_update_cars(sim))
AfterOvertaking(sim) ==
    _store_history(_check_lap_completion(_update_attack_modes(sim)))

\* The simulator record held by the variables.
RSSim ==
    [ cars |-> car_states, race_state |-> race_state, events |-> race_events,
      history |-> overtaking_history, attack |-> rs_attack_modes,
      loop |-> rs_loop, position_history |-> position_history,
      trace |-> rs_trace ]

RSSet(sim) ==
    /\ car_states' = sim.cars
    /\ race_state' = sim.race_state
    /\ race_events' = sim.events
    /\ overtaking_history' = sim.history
    /\ rs_attack_modes' = sim.attack
    /\ rs_loop' = sim.loop
    /\ position_history' = sim.position_history
    /\ rs_trace' = sim.trace

\* RaceSimulator(...) followed by the start of run_race (_initialize_cars).
RSInit ==
    /\ \E vehicle \in RSVehicles :
       \E skill_factor \in [RSCars -> vehicle], max_race_time \in RaceDurations :
         LET sim == NewRaceSimulator(skill_factor, max_race_time)
         IN  /\ car_states = sim.cars
             /\ race_state = sim.race_state
             /\ race_events = sim.events
             /\ overtaking_history = sim.history
             /\ rs_attack_modes = sim.attack
             /\ rs_loop = sim.loop
             /\ position_history = sim.position_history
             /\ rs_trace = sim.trace
    /\ AMIdle
    /\ FEIdle
    /\ DetIdle
    /\ OTIdle
    /\ CfgIdle
    /\ EvIdle

\* One iteration of the loop of RaceSimulator.run_race.
RSStep ==
    /\ DOMAIN car_states # {}
    /\ ~rs_loop.race_finished
    /\ ~rs_loop.raised
    /\ \E s1 \in _update_race_events(AdvanceClock(RSSim)) :
         \E s2 \in _check_overtaking(BeforeOvertaking(s1)) :
            RSSet(IF s2.loop.raised THEN s2 ELSE AfterOvertaking(s2))
    /\ UNCHANGED <<amVars, feVars, detVars, otVars, cfgVars, evVars>>

RSNext == RSStep

SpecRS == RSInit /\ [][RSNext]_vars

\* run_race is one uninterrupted loop: while its condition holds, another
\* iteration runs.  This is WF_vars(RSStep) with ENABLED <<RSStep>>_vars
\* written out: an iteration is possible exactly when the race is neither
\* finished nor ended by an exception, and every iteration advances the clock.
SpecRSLive ==
    /\ RSInit
    /\ [][RSNext]_vars
    /\ \/ []<>(DOMAIN car_states = {} \/ rs_loop.race_finished \/ rs_loop.raised)
       \/ []<><<RSStep>>_vars

(***************************************************************************)
(* main_race_sim.py: FormulaEStrategySimulator                             *)
(*                                                                         *)
(* Fixed point, every product rounded down: times in seconds, speeds in    *)
(* dm/s, distances in dm, energy in units of 1e-4, tire degradation in     *)
(* units of 1e-6, the factors of the speed in units of 1e-4.  The per-car  *)
(* history lists (lap_times, energy_history, position_history, lap_history,*)
(* speed_history) are append-only logs the simulator never reads; they are *)
(* left out.                                                               *)
(***************************************************************************)

\* num_cars
FENumCars == 3
FECars == 0 .. (FENumCars - 1)
\* time_step = 10.0 s
fe_time_step == 10
\* track_length = 62000 m
fe_track_length == 620000
\* race_duration = race_duration_minutes * 60.0, with 12 minutes
race_duration == 720
\* the random trials of _check_events that may come out true in one race
FEMaxHits == 1
\* car['energy'] = 52.0
full_energy == 520000
\* np.random.uniform(8, 12): the attack mode ends before or after the next step
AttackModeDurations == {8, 12}
\* np.random.uniform(120, 300)
SafetyCarDurations == {120, 300}
\* attack_mode_lap_config: None (0, both are falsy) or the lap to attack on
AttackModeLapConfigs == {0, 2}
\* pit_window_config: None (the empty tuple) or <<start, end>>
PitWindowConfigs == { << >>, <<2, 4>> }

Max2(a, b) == IF a >= b THEN a ELSE b
Min2(a, b) == IF a <= b THEN a ELSE b

\* AGGRESSIVE_STRATEGY, BALANCED_STRATEGY, CONSERVATIVE_STRATEGY
\* (target_speed_factor in hundredths)
StrategyConfig(name) ==
    CASE name = "aggressive" ->
           [ name |-> name, target_speed_factor |-> 108,
             attack_mode_threshold |-> 500000, pit_window_start |-> 15,
             pit_window_end |-> 35, energy_reserve |-> 50000 ]
      [] name = "balanced" ->
           [ name |-> name, target_speed_factor |-> 100,
             attack_mode_threshold |-> 600000, pit_window_start |-> 20,
             pit_window_end |-> 40, energy_reserve |-> 100000 ]
      [] name = "conservative" ->
           [ name |-> name, target_speed_factor |-> 92,
             attack_mode_threshold |-> 700000, pit_window_start |-> 25,
             pit_window_end |-> 45, energy_reserve |-> 150000 ]

\* the strategies list of _initialize
strategies ==
    << "aggressive", "balanced", "conservative", "balanced", "aggressive",
       "conservative", "balanced", "aggressive", "conservative", "balanced" >>

\* One car of _initialize, with the configuration the optimizer writes into
\* the car before the race.
NewCar(car_id, am_lap, pit_window) ==
    [ id |-> car_id,
      position |-> car_id + 1,
      lap |-> 0,
      distance |-> 0,
      speed |-> 0,
      energy |-> full_energy,
      tire_age |-> 0,
      tire_degradation |-> 0,
      pitted |-> FALSE,
      pit_count |-> 0,
      attack_mode_uses |-> 0,
      attack_mode_active |-> FALSE,
      attack_mode_end_time |-> 0,
      strategy |-> IF car_id < Len(strategies)
                   THEN strategies[car_id + 1] ELSE "balanced",
      total_time |-> 0,
      active |-> TRUE,
      dnf_reason |-> "None",
      attack_mode_lap_config |-> am_lap,
      pit_window_config |-> pit_window ]

\* race_state of _initialize (hits counts the random trials of
\* _check_events that came out true)
NewFERaceState ==
    [ time |-> 0,
      lap |-> 0,
      safety_car_active |-> FALSE,
      safety_car_end_time |-> 0,
      weather |-> "dry",
      friction |-> 100,
      hits |-> 0 ]

\* _try_pit recharging the car without counting the pit stop.
_try_pit_Uncounted(car) ==
    IF car.energy < StrategyConfig(car.strategy).energy_reserve
    THEN [car EXCEPT !.energy = full_energy]
    ELSE car

\* FormulaEStrategySimulator._try_pit
_try_pit(car) ==
    LET strategy == StrategyConfig(car.strategy)
        configured == car.pit_window_config # << >>
        pit_window_start == IF configured THEN car.pit_window_config[1]
                            ELSE strategy.pit_window_start
        pit_window_end == IF configured THEN car.pit_window_config[2]
                          ELSE strategy.pit_window_end
        should_pit == \/ car.lap = pit_window_start
                      \/ (car.energy < strategy.energy_reserve /\ ~car.pitted)
    IN  IF /\ should_pit
           /\ pit_window_start <= car.lap
           /\ car.lap <= pit_window_end
           /\ ~car.pitted
        THEN [car EXCEPT !.pitted = TRUE,
                         !.pit_count = @ + 1,
                         !.energy = full_energy,
                         !.tire_degradation = 0,
                         !.tire_age = 0,
                         !.total_time = @ + 25]
        ELSE car

\* The car with attack mode switched on until time + duration.
AttackModeOn(car, time, duration) ==
    [car EXCEPT !.attack_mode_active = TRUE,
                !.attack_mode_end_time = time + duration,
                !.attack_mode_uses = @ + 1]

\* FormulaEStrategySimulator._try_attack_mode: the cars it may leave.
_try_attack_mode(car, time) ==
    LET threshold == StrategyConfig(car.strategy).attack_mode_threshold
        activated == { AttackModeOn(car, time, d) : d \in AttackModeDurations }
    IN  IF car.attack_mode_uses >= 2 THEN {car}
        ELSE IF car.attack_mode_lap_config # 0
        THEN IF car.lap = car.attack_mode_lap_config /\ car.energy > threshold
             THEN activated
             ELSE {car}
        ELSE IF car.energy > threshold
             THEN {car} \cup activated
             ELSE {car}

\* np.sqrt(race_state['friction']) for the two values friction takes
SqrtFriction(friction) == IF friction = 100 THEN 10000 ELSE 8367

\* 80.0 / 3.6 m/s, in dm/s.
fe_safety_car_speed == 222

\* The speed of _update_car with the attack-mode boost applied after the
\* safety-car limit.
BaseSpeed_BoostAfterLimit(car, rs) ==
    LET strategy == StrategyConfig(car.strategy)
        b0 == fe_track_length \div 31
        b1 == (b0 * strategy.target_speed_factor) \div 100
        tire_penalty == 10000 - (car.tire_degradation * 6) \div 1000
        b2 == (b1 * tire_penalty) \div 10000
        energy_factor == Max2(5000, car.energy \div 52)
        b3 == (b2 * energy_factor) \div 10000
        b4 == (b3 * SqrtFriction(rs.friction)) \div 10000
        b5 == IF rs.safety_car_active THEN Min2(b4, fe_safety_car_speed) ELSE b4
    IN  IF car.attack_mode_active THEN (b5 * 110) \div 100 ELSE b5

\* The speed _update_car gives the car.
BaseSpeed(car, rs) ==
    LET strategy == StrategyConfig(car.strategy)
        b0 == fe_track_length \div 31
        b1 == (b0 * strategy.target_speed_factor) \div 100
        tire_penalty == 10000 - (car.tire_degradation * 6) \div 1000
        b2 == (b1 * tire_penalty) \div 10000
        energy_factor == Max2(5000, car.energy \div 52)
        b3 == (b2 * energy_factor) \div 10000
        b4 == (b3 * SqrtFriction(rs.friction)) \div 10000
        b5 == IF car.attack_mode_active THEN (b4 * 110) \div 100 ELSE b4
    IN  IF rs.safety_car_active THEN Min2(b5, fe_safety_car_speed) ELSE b5

\* The energy one step takes from the car.
Consumption(car) ==
    LET c0 == (car.speed * 6 * fe_time_step) \div 60
        c1 == (c0 * (10000 + car.tire_degradation \div 200)) \div 10000
        c2 == IF car.attack_mode_active THEN (c1 * 15) \div 10 ELSE c1
    IN  IF car.strategy = "aggressive" THEN (c2 * 12) \div 10
        ELSE IF car.strategy = "conservative" THEN (c2 * 8) \div 10
        ELSE c2

\* The end of _update_car: tire wear, consumption and the retirement of a
\* car out of energy.
WearAndConsume(car) ==
    LET worn == [car EXCEPT !.tire_degradation =
                    Min2(1000000, @ + (car.speed * 12) \div 10)]
        used == [worn EXCEPT !.energy = @ - Consumption(worn)]
    IN  IF used.energy < 10000 /\ ~used.pitted
        THEN [used EXCEPT !.active = FALSE, !.dnf_reason = "out_of_energy"]
        ELSE used

\* FormulaEStrategySimulator._update_car: the cars it may leave.
_update_car(car, rs) ==
    LET speed == BaseSpeed(car, rs)
        moved == [car EXCEPT
                    !.attack_mode_active =
                        IF @ /\ rs.time >= car.attack_mode_end_time
                        THEN FALSE ELSE @,
                    !.speed = speed,
                    !.distance = @ + speed * fe_time_step,
                    !.total_time = @ + fe_time_step]
        lapped == [moved EXCEPT !.distance = @ - fe_track_length,
                                !.lap = @ + 1,
                                !.tire_age = @ + 1]
    IN  IF moved.distance >= fe_track_length
        THEN { WearAndConsume(c) : c \in _try_attack_mode(_try_pit(lapped), rs.time) }
        ELSE { WearAndConsume(moved) }

FEActiveCars(cars) == { c \in DOMAIN cars : cars[c].active }

\* A random trial of _check_events may come out true.
FEMayHit(rs) == rs.hits < FEMaxHits

\* _check_events, the weather trial: [cars, rs, log] before and after.
WeatherTrial(st) ==
    {st} \cup
    IF FEMayHit(st.rs) /\ st.rs.weather = "dry"
    THEN { [st EXCEPT !.rs.weather = "wet",
                      !.rs.friction = 70,
                      !.rs.hits = @ + 1,
                      !.log = Append(@, [ time |-> st.rs.time,
                                          type |-> "weather",
                                          car_id |-> -1 ])] }
    ELSE {}

\* _check_events, the safety-car trial; n is len(active_cars).
FESafetyCarTrial(st, n) ==
    {st} \cup
    IF FEMayHit(st.rs) /\ ~st.rs.safety_car_active /\ n > 1
    THEN { [st EXCEPT !.rs.safety_car_active = TRUE,
                      !.rs.safety_car_end_time = st.rs.time + d,
                      !.rs.hits = @ + 1,
                      !.log = Append(@, [ time |-> st.rs.time,
                                          type |-> "safety_car",
                                          car_id |-> -1 ])]
           : d \in SafetyCarDurations }
    ELSE {}

\* The crash trial retiring its victim without an entry in the event log.
CrashTrial_Unlogged(st, active_cars) ==
    {st} \cup
    IF FEMayHit(st.rs) /\ Cardinality(active_cars) > 1
    THEN { [st EXCEPT !.cars[victim].active = FALSE,
                      !.cars[victim].dnf_reason = "crash",
                      !.rs.hits = @ + 1]
           : victim \in active_cars }
    ELSE {}

\* _check_events, the crash trial; active_cars is the list taken on entry.
CrashTrial(st, active_cars) ==
    {st} \cup
    IF FEMayHit(st.rs) /\ Cardinality(active_cars) > 1
    THEN { [st EXCEPT !.cars[victim].active = FALSE,
                      !.cars[victim].dnf_reason = "crash",
                      !.rs.hits = @ + 1,
                      !.log = Append(@, [ time |-> st.rs.time,
                                          type |-> "crash",
                                          car_id |-> victim ])]
           : victim \in active_cars }
    ELSE {}

\* _check_events, the end of the safety car.
SafetyCarEnd(st) ==
    IF st.rs.safety_car_active /\ st.rs.time >= st.rs.safety_car_end_time
    THEN [st EXCEPT !.rs.safety_car_active = FALSE]
    ELSE st

\* FormulaEStrategySimulator._check_events: the simulators it may leave.
_check_events(st) ==
    LET active_cars == FEActiveCars(st.cars)
    IN  IF active_cars = {} THEN {st}
        ELSE { SafetyCarEnd(s3) :
                 s3 \in UNION { CrashTrial(s2, active_cars) :
                   s2 \in UNION { FESafetyCarTrial(s1, Cardinality(active_cars)) :
                     s1 \in WeatherTrial(st) } } }

\* active_cars.sort(key=lambda x: (-x['lap'], -x['distance'])): a is put
\* before b (the sort is stable: equal keys keep the order of self.cars).
RanksBefore(cars, a, b) ==
    \/ cars[a].lap > cars[b].lap
    \/ cars[a].lap = cars[b].lap /\ cars[a].distance > cars[b].distance
    \/ cars[a].lap = cars[b].lap /\ cars[a].distance = cars[b].distance /\ a < b

\* _update_positions ranking the active cars only: a retired car keeps the
\* rank it had.
FE_update_positions_ActiveOnly(cars) ==
    LET active_cars == FEActiveCars(cars)
    IN  [ c \in DOMAIN cars |->
            IF c \in active_cars
            THEN [cars[c] EXCEPT !.position =
                    Cardinality({ o \in active_cars : RanksBefore(cars, o, c) }) + 1]
            ELSE cars[c] ]

\* FormulaEStrategySimulator._update_positions
FE_update_positions(cars) ==
    LET active_cars == FEActiveCars(cars)
        dnf_cars == DOMAIN cars \ active_cars
    IN  IF active_cars = {} THEN cars
        ELSE [ c \in DOMAIN cars |->
                 IF c \in active_cars
                 THEN [cars[c] EXCEPT !.position =
                         Cardinality({ o \in active_cars : RanksBefore(cars, o, c) }) + 1]
                 ELSE [cars[c] EXCEPT !.position =
                         Cardinality(active_cars)
                           + Cardinality({ o \in dnf_cars : o < c }) + 1] ]

\* FormulaEStrategySimulator(...) with the configuration written into every
\* car, as MonteCarloStrategyOptimizer does before run_race.
FEInit ==
    /\ \E am_lap \in AttackModeLapConfigs : \E pit_window \in PitWindowConfigs :
         fe_cars = [c \in FECars |-> NewCar(c, am_lap, pit_window)]
    /\ fe_race_state = NewFERaceState
    /\ fe_event_log = << >>
    /\ AMIdle
    /\ RSIdle
    /\ DetIdle
    /\ OTIdle
    /\ CfgIdle
    /\ EvIdle

\* One iteration of the loop of FormulaEStrategySimulator.run_race.
FEStep ==
    /\ DOMAIN fe_cars # {}
    /\ fe_race_state.time < race_duration
    /\ LET rs == [fe_race_state EXCEPT !.time = @ + fe_time_step]
           Outcomes(c) == IF fe_cars[c].active
                          THEN _update_car(fe_cars[c], rs)
                          ELSE { fe_cars[c] }
       IN  \E updated \in [ FECars -> UNION { Outcomes(c) : c \in FECars } ] :
             /\ \A c \in FECars : updated[c] \in Outcomes(c)
             /\ \E st \in _check_events([cars |-> updated, rs |-> rs,
                                         log |-> fe_event_log]) :
                  /\ fe_cars' = FE_update_positions(st.cars)
                  /\ fe_race_state' = st.rs
                  /\ fe_event_log' = st.log
    /\ UNCHANGED <<amVars, rsVars, detVars, otVars, cfgVars, evVars>>

FENext == FEStep

SpecFE == FEInit /\ [][FENext]_vars

(***************************************************************************)
(* The random stream of the simulators                                     *)
(*                                                                         *)
(* np.random is one generator per process, shared by every object.  Its    *)
(* state is the seed last given to np.random.seed and the number of values *)
(* drawn since; the value of a draw is a function of that state and is     *)
(* written as the pair <<seed, drawn>>.                                    *)
(***************************************************************************)

\* RaceSimulator instances alive in the process
NumSimulators == 2
Simulators == 1 .. NumSimulators
\* random_seed
Seeds == {1, 2}
\* the draws of the race loop (check_lap_events, attempt_overtake) recorded
MaxRaceDraws == 2

\* np.random.seed(s)
np_random_seed(s) == [seed |-> s, drawn |-> 0]

\* The value of the next draw from np.random, and the generator after it.
NextDraw(np) == <<np.seed, np.drawn>>
AfterDraws(np, n) == [np EXCEPT !.drawn = @ + n]

\* No RaceSimulator object yet.
NoSimulator ==
    [ phase |-> "none", random_seed |-> NoneT, activation_time_loss |-> << >>,
      car_draws |-> << >>, race_draws |-> << >>, events_draws |-> << >> ]

\* The generator after RaceSimulator.__init__: np.random.seed(random_seed) in
\* RaceSimulator, RaceEvents and OvertakingModel, then for each car
\* np.random.seed(random_seed + car_id) and one draw in AttackMode.
SeededByInit(random_seed) ==
    AfterDraws(np_random_seed(random_seed + (RSNumCars - 1)), 1)

\* activation_time_loss of each car: the first draw after
\* np.random.seed(random_seed + car_id).
TimeLossDraws(random_seed) ==
    [c \in RSCars |-> NextDraw(np_random_seed(random_seed + c))]

\* The draws of _initialize_cars: skill_factor and efficiency_factor of each
\* car, in car order, from the generator as run_race finds it.
CarDraws(np) ==
    [c \in RSCars |-> [ skill_factor |-> NextDraw(AfterDraws(np, 2 * c)),
                        efficiency_factor |-> NextDraw(AfterDraws(np, 2 * c + 1)) ]]

DetInit ==
    /\ np_random = np_random_seed(0)
    /\ simulators = [i \in Simulators |-> NoSimulator]
    /\ AMIdle
    /\ RSIdle
    /\ FEIdle
    /\ OTIdle
    /\ CfgIdle
    /\ EvIdle

\* run_race runs to its end once called: nothing else happens in between.
NoneRacing == \A i \in Simulators : simulators[i].phase # "racing"

\* simulators[i] = RaceSimulator(..., random_seed=random_seed)
Construct(i, random_seed) ==
    /\ simulators[i].phase = "none"
    /\ NoneRacing
    /\ np_random' = SeededByInit(random_seed)
    /\ simulators' = [simulators EXCEPT ![i] =
           [ phase |-> "constructed",
             random_seed |-> random_seed,
             activation_time_loss |-> TimeLossDraws(random_seed),
             car_draws |-> << >>,
             race_draws |-> << >>,
             events_draws |-> << >> ]]
    /\ UNCHANGED <<amVars, rsVars, feVars, otVars, cfgVars, evVars>>

\* simulators[i].run_race() up to the race loop: _initialize_cars
StartRace(i) ==
    /\ simulators[i].phase = "constructed"
    /\ NoneRacing
    /\ np_random' = AfterDraws(np_random, 2 * RSNumCars)
    /\ simulators' = [simulators EXCEPT ![i].phase = "racing",
                                        ![i].car_draws = CarDraws(np_random)]
    /\ UNCHANGED <<amVars, rsVars, feVars, otVars, cfgVars, evVars>>

\* The components that draw in the race loop: np.random.random() in
\* RaceEvents.check_lap_events and in OvertakingModel.attempt_overtake.
DrawingComponents == {"race_events", "overtaking"}

\* A random trial of the race loop of simulators[i], made by component;
\* events_draws are the values RaceEvents has seen.
RaceDraw(i, component) ==
    /\ simulators[i].phase = "racing"
    /\ Len(simulators[i].race_draws) < MaxRaceDraws
    /\ np_random' = AfterDraws(np_random, 1)
    /\ simulators' = [simulators EXCEPT
                        ![i].race_draws = Append(@, NextDraw(np_random)),
                        ![i].events_draws =
                            IF component = "race_events"
                            THEN Append(@, NextDraw(np_random)) ELSE @]
    /\ UNCHANGED <<amVars, rsVars, feVars, otVars, cfgVars, evVars>>

\* The race loop of simulators[i] ends.
FinishRace(i) ==
    /\ simulators[i].phase = "racing"
    /\ simulators' = [simulators EXCEPT ![i].phase = "finished"]
    /\ UNCHANGED np_random
    /\ UNCHANGED <<amVars, rsVars, feVars, otVars, cfgVars, evVars>>

DetNext ==
    \E i \in Simulators :
        \/ \E random_seed \in Seeds : Construct(i, random_seed)
        \/ StartRace(i)
        \/ \E component \in DrawingComponents : RaceDraw(i, component)
        \/ FinishRace(i)

SpecDet == DetInit /\ [][DetNext]_vars

(***************************************************************************)
(* Either race simulator                                                   *)
(***************************************************************************)

SimInit == RSInit \/ FEInit

SimNext == RSStep \/ FEStep

SpecSim == SimInit /\ [][SimNext]_vars

(***************************************************************************)
(* The constructors and the configuration they are handed                  *)
(*                                                                         *)
(* constructed holds what the last constructor call left: the class, the   *)
(* arguments, whether the call raised, and the car ids of the object made. *)
(***************************************************************************)

\* num_cars: around the ends of the documented ranges (1-10 and 10-20).
CfgNumCars == {-1, 0, 1, 10, 11, 20, 21}
\* time_step in tenths of a second.
CfgTimeSteps == {-5, 0, 2, 5, 10}
\* activation_zone_start and activation_zone_end in metres on a 2500 m track;
\* None stands for the default (20% and 25% of the track).
CfgZones == { <<NoneT, NoneT>>, <<600, 700>>, <<625, 500>>, <<2400, 2600>>,
              <<3000, 3100>>, <<0, 2500>> }

CfgInit ==
    /\ constructed = [class |-> "none"]
    /\ AMIdle
    /\ RSIdle
    /\ FEIdle
    /\ DetIdle
    /\ OTIdle
    /\ EvIdle

\* RaceSimulator.__init__: no argument is tested.
ConstructRaceSimulator(num_cars, step) ==
    /\ constructed # << >>
    /\ constructed' = [ class |-> "RaceSimulator",
                        raised |-> FALSE,
                        num_cars |-> num_cars,
                        time_step |-> step,
                        zone_start |-> ZoneStart,
                        zone_end |-> ZoneEnd,
                        cars |-> 0 .. (num_cars - 1) ]
    /\ UNCHANGED <<amVars, rsVars, feVars, detVars, otVars, evVars>>

\* FormulaEStrategySimulator.__init__: assert 1 <= num_cars <= 10.
ConstructFormulaEStrategySimulator(num_cars, step) ==
    /\ constructed # << >>
    /\ constructed' = [ class |-> "FormulaEStrategySimulator",
                        raised |-> ~(1 <= num_cars /\ num_cars <= 10),
                        num_cars |-> num_cars,
                        time_step |-> step,
                        zone_start |-> NoneT,
                        zone_end |-> NoneT,
                        cars |-> IF 1 <= num_cars /\ num_cars <= 10
                                 THEN 0 .. (num_cars - 1) ELSE {} ]
    /\ UNCHANGED <<amVars, rsVars, feVars, detVars, otVars, evVars>>

\* AttackModeManager.__init__: no argument is tested.
ConstructAttackModeManager(num_cars, zone) ==
    /\ constructed # << >>
    /\ constructed' = [ class |-> "AttackModeManager",
                        raised |-> FALSE,
                        num_cars |-> num_cars,
                        time_step |-> NoneT,
                        zone_start |-> IF zone[1] = NoneT THEN ZoneStart ELSE zone[1],
                        zone_end |-> IF zone[2] = NoneT THEN ZoneEnd ELSE zone[2],
                        cars |-> 0 .. (num_cars - 1) ]
    /\ UNCHANGED <<amVars, rsVars, feVars, detVars, otVars, evVars>>

CfgNext ==
    \/ \E n \in CfgNumCars, t \in CfgTimeSteps : ConstructRaceSimulator(n, t)
    \/ \E n \in CfgNumCars, t \in CfgTimeSteps :
          ConstructFormulaEStrategySimulator(n, t)
    \/ \E n \in CfgNumCars, z \in CfgZones : ConstructAttackModeManager(n, z)

SpecCfg == CfgInit /\ [][CfgNext]_vars

(***************************************************************************)
(* Properties of RaceSimulator                                             *)
(***************************************************************************)

\* C1: at the end of every step the position ranks held by the active cars
\* are exactly 1..k, k the number of active cars.
C1_ActiveRanksContiguous ==
    { car_states[c].position : c \in ActiveCars(car_states) }
        = 1 .. Cardinality(ActiveCars(car_states))

\* C5: a safety car leaves the DEPLOYED phase for RETURNING only after
\* race_state.current_lap has advanced by 3 to 8 laps since the deployment.
C5_DeployedThreeToEightLaps ==
    [][ ( /\ race_events.safety_car_state = "DEPLOYED"
          /\ race_events'.safety_car_state = "RETURNING" )
        => ( race_state.current_lap - race_events.safety_car_deployment_lap
               \in 3 .. 8 ) ]_vars

\* C6: a car whose energy runs out is inactive at the end of that step with
\* energy exactly 0 and is not in the crashed set; no car's energy is ever
\* negative; and a retired car's lap, track distance, speed and energy never
\* change again.
C6_EnergyRetirement ==
    /\ [] ( \A c \in DOMAIN car_states :
              /\ car_states[c].energy_remaining >= 0
              /\ car_states[c].is_active => car_states[c].energy_remaining > 0
              /\ car_states[c].energy_remaining = 0
                   => c \notin race_events.crashed_cars )
    /\ [][ \A c \in DOMAIN car_states :
              ~car_states[c].is_active =>
                 /\ ~car_states'[c].is_active
                 /\ car_states'[c].lap = car_states[c].lap
                 /\ car_states'[c].track_distance = car_states[c].track_distance
                 /\ car_states'[c].speed = car_states[c].speed
                 /\ car_states'[c].energy_remaining
                      = car_states[c].energy_remaining ]_vars

\* C6 witness: a car retired out of energy (not crashed) and the race went on
\* to its end.
C6_Witness ==
    \E c \in DOMAIN car_states :
        /\ ~car_states[c].is_active
        /\ car_states[c].energy_remaining = 0
        /\ c \notin race_events.crashed_cars
        /\ rs_loop.race_finished

(***************************************************************************)
(* Properties of FormulaEStrategySimulator                                 *)
(***************************************************************************)

\* C2: at the end of every step the active cars hold the ranks 1..k in the
\* order of (lap descending, distance descending), the retired cars hold the
\* ranks k+1..N, and the positions of all cars are a permutation of 1..N.
C2_RanksArePermutation ==
    LET active_cars == FEActiveCars(fe_cars)
        k == Cardinality(active_cars)
        N == Cardinality(DOMAIN fe_cars)
    IN  /\ { fe_cars[c].position : c \in active_cars } = 1 .. k
        /\ { fe_cars[c].position : c \in DOMAIN fe_cars \ active_cars }
             = (k + 1) .. N
        /\ \A a, b \in DOMAIN fe_cars :
             a # b => fe_cars[a].position # fe_cars[b].position
        /\ \A a, b \in active_cars :
             fe_cars[a].position < fe_cars[b].position
               => \/ fe_cars[a].lap > fe_cars[b].lap
                  \/ /\ fe_cars[a].lap = fe_cars[b].lap
                     /\ fe_cars[a].distance >= fe_cars[b].distance

\* C2 witness: the last active car has retired, after another car retired
\* before it.
C2_Witness ==
    /\ DOMAIN fe_cars # {}
    /\ FEActiveCars(fe_cars) = {}
    /\ \E a, b \in DOMAIN fe_cars : fe_cars[a].total_time < fe_cars[b].total_time

\* C7: no car races on with negative energy, whether or not it has made its
\* pit stop.
C7_NoActiveCarBelowZero ==
    \A c \in DOMAIN fe_cars : fe_cars[c].active => fe_cars[c].energy >= 0

(***************************************************************************)
(* Properties of both simulators                                           *)
(***************************************************************************)

\* C8: from one step to the next the energy of an active car does not
\* increase in RaceSimulator, and in FormulaEStrategySimulator it increases
\* only on a step in which the car makes a pit stop, to at most the full 52.0.
C8_EnergyNeverIncreases ==
    [][ /\ \A c \in DOMAIN car_states :
             car_states[c].is_active
               => car_states'[c].energy_remaining <= car_states[c].energy_remaining
        /\ \A c \in DOMAIN fe_cars :
             (fe_cars[c].active /\ fe_cars'[c].energy > fe_cars[c].energy)
               => /\ fe_cars'[c].pit_count = fe_cars[c].pit_count + 1
                  /\ fe_cars'[c].energy <= full_energy ]_vars

\* C8 witness: a car of FormulaEStrategySimulator has just made its pit stop
\* and holds more energy than a car can have left without one.
C8_Witness ==
    \E c \in DOMAIN fe_cars :
        /\ fe_cars[c].pit_count = 1
        /\ fe_cars[c].tire_age = 0
        /\ fe_cars[c].lap >= 2
        /\ fe_cars[c].energy > 480000

(***************************************************************************)
(* Properties of the random stream                                         *)
(***************************************************************************)

\* C3: two RaceSimulator runs constructed with the same seed are fed the same
\* random draws (and so give the same event log, standings and position
\* history).
C3_SameSeedSameDraws ==
    \A i, j \in DOMAIN simulators :
        ( /\ simulators[i].phase = "finished"
          /\ simulators[j].phase = "finished"
          /\ simulators[i].random_seed = simulators[j].random_seed )
        => /\ simulators[i].activation_time_loss = simulators[j].activation_time_loss
           /\ simulators[i].car_draws = simulators[j].car_draws

(***************************************************************************)
(* Properties of the Attack Mode controller                                *)
(***************************************************************************)

\* A track position inside the activation zone [zone_start, zone_end].
InActivationZone(p) == ZoneStart <= p /\ p <= ZoneEnd

\* C4: whatever can_activate, activate and update calls are made, a car's
\* recorded activations never exceed max_activations, activations_remaining
\* never drops below 0, and recorded + remaining = max_activations.
C4_ActivationsBounded ==
    \A c \in AMCars :
        /\ Len(attack_modes[c].activation_history) <= max_activations
        /\ attack_modes[c].activations_remaining >= 0
        /\ Len(attack_modes[c].activation_history)
             + attack_modes[c].activations_remaining = max_activations

\* C4 witness: both activations are spent and a further activate is refused.
C4_Witness ==
    \E c \in AMCars :
        /\ attack_modes[c].state = "USED"
        /\ Len(attack_modes[c].activation_history) = max_activations
        /\ am_ret.op = "activate" /\ am_ret.car = c /\ am_ret.ok = FALSE
        /\ am_ret.before = "USED"

\* C9: can_activate with a track position outside [zone_start, zone_end]
\* returns (false, "not in activation zone") in every state of the controller.
C9_OutsideZoneAlwaysNotInZone ==
    ( /\ am_ret.op = "can_activate"
      /\ am_ret.car \in AMCars
      /\ ~InActivationZone(am_ret.pos) )
    => ( am_ret.ok = FALSE /\ am_ret.reason = "Not in activation zone" )

\* C10: can_activate returns true exactly when the controller is AVAILABLE
\* and the position within the current lap (track position modulo the track
\* length) lies in [zone_start, zone_end].
C10_ZoneOncePerLap ==
    ( am_ret.op = "can_activate" /\ am_ret.car \in AMCars )
    => ( am_ret.ok <=> ( /\ am_ret.before = "AVAILABLE"
                         /\ InActivationZone(PyMod(am_ret.pos, AMTrackLength)) ) )

\* C11: attempt_overtake never succeeds when the boost-adjusted speed
\* differential is below 5 km/h: it returns success = false and time_gain = 0
\* for every gap and every pair of speeds.
C11_NoSuccessBelowMinimum ==
    ( /\ ot_ret # << >>
      /\ ot_ret.op = "attempt_overtake"
      /\ ToKmh(ot_ret.attacker_speed) - ToKmh(ot_ret.defender_speed)
           + (IF ot_ret.attacker_has_attack_mode THEN 80 ELSE 0)
           - (IF ot_ret.defender_has_attack_mode THEN 80 ELSE 0) < 50 )
    => ( /\ ~ot_ret.result.success
         /\ ot_ret.result.time_gain = 0
         /\ ~ot_ret.result.raised )

\* An attempt whose raw differential passes the minimum (13 km/h) and whose
\* adjusted differential does not (the defender has attack mode).
C11_Witness ==
    /\ ot_ret # << >>
    /\ ot_ret.op = "attempt_overtake"
    /\ ot_ret.result.speed_differential_kmh >= 50
    /\ ot_ret.defender_has_attack_mode
    /\ ~ot_ret.attacker_has_attack_mode
    /\ ot_ret.result.speed_differential_kmh - 80 < 50
    /\ ~ot_ret.result.success

C13_TimeGainPositive ==
    ( /\ ot_ret # << >>
      /\ ot_ret.op = "attempt_overtake"
      /\ ot_ret.result.success
      /\ ot_ret.defender_speed > 0
      /\ ot_ret.result.speed_differential_kmh >= 100
      /\ ot_ret.result.speed_differential_kmh < 150 )
    => ( ot_ret.result.time_gain > 0 /\ ot_ret.result.time_gain < 1000 )

\* C14: every attempt_overtake call that returns, refused ones included,
\* appends exactly one record to the history and leaves the records already
\* there as they are; get_overtaking_statistics then reports one more attempt.
C14_EveryCallRecorded ==
    [][ ( /\ ot_ret # << >>
          /\ ot_ret'.op = "attempt_overtake"
          /\ ot_ret'.calls = ot_ret.calls + 1
          /\ ~ot_ret'.result.raised )
        => ( /\ Len(overtaking_history') = Len(overtaking_history) + 1
             /\ SubSeq(overtaking_history', 1, Len(overtaking_history))
                  = overtaking_history
             /\ get_overtaking_statistics(overtaking_history').total_attempts
                  = get_overtaking_statistics(overtaking_history).total_attempts + 1 )
      ]_vars

\* C15: run_race finishes only once the race clock has reached the configured
\* duration and the car that led when it did has completed the lap it was on:
\* in the step that sets race_finished, the leader of the step before (the
\* step in which the clock reached the duration), if it is still racing, is
\* on a later lap than then.
C15_FinishAfterLeaderLap ==
    [][ ( /\ DOMAIN car_states # {}
          /\ ~rs_loop.race_finished
          /\ rs_loop'.race_finished )
        => ( /\ race_state'.race_time >= rs_loop.max_race_time
             /\ car_states[race_state.leader_id].is_active
                  => car_states'[race_state.leader_id].lap
                       > car_states[race_state.leader_id].lap )
      ]_vars

C17_InvalidConfigurationRejected ==
    ( /\ constructed # << >>
      /\ constructed.class # "none"
      /\ \/ constructed.num_cars < 1
         \/ constructed.class = "FormulaEStrategySimulator" /\ constructed.num_cars > 10
         \/ constructed.time_step # NoneT /\ constructed.time_step <= 0
         \/ constructed.zone_start # NoneT
              /\ ( \/ constructed.zone_start > constructed.zone_end
                   \/ constructed.zone_start < 0
                   \/ constructed.zone_end > AMTrackLength ) )
    => ( constructed.raised /\ constructed.cars = {} )

\* C18: a manager operation called with a car id the manager does not hold
\* reports a failure that no managed car can get as its answer: not one of
\* the reasons of can_activate, not a boolean from activate or is_active, not
\* a power level from get_power_kw (200 kW baseline or 250 kW), not a count
\* 0..max_activations from get_activations_remaining.
C18_UnknownCarIsAFailure ==
    ( /\ am_ret # << >>
      /\ am_ret.car # NoneT
      /\ am_ret.car \notin AMCars )
    => ( /\ am_ret.op = "can_activate"
              => am_ret.reason \notin { "All activations used", "Already active",
                                        "Currently activating",
                                        "Not in activation zone", "Can activate" }
         /\ am_ret.op \in {"activate", "is_active"} => am_ret.ok \notin BOOLEAN
         /\ am_ret.op = "get_power_kw"
              => am_ret.value \notin {base_power_kw, attack_mode_power_kw}
         /\ am_ret.op = "get_activations_remaining"
              => am_ret.value \notin 0 .. max_activations )

(***************************************************************************)
(* Properties of RaceEvents                                                *)
(***************************************************************************)

\* C19: safety_car_active is true exactly when the phase is DEPLOYED or
\* RETURNING, and get_safety_car_speed returns the cap of 80 km/h exactly
\* when the safety car is active and np.inf otherwise.
C19_SafetyCarActiveIffOut ==
    race_events # << >>
    => ( /\ race_events.safety_car_active
              <=> race_events.safety_car_state \in {"DEPLOYED", "RETURNING"}
         /\ race_events.safety_car_state \in {"DEPLOYED", "RETURNING", "CLEAR"}
         /\ get_safety_car_speed(race_events) = 400
              <=> race_events.safety_car_active
         /\ get_safety_car_speed(race_events) = 1000000
              <=> ~race_events.safety_car_active )

\* A safety car on its way back in, and one that has come in.
C19_Witness ==
    /\ race_events # << >>
    /\ car_states = << >>
    /\ race_events.total_safety_cars > 0
    /\ \/ race_events.safety_car_state = "RETURNING"
       \/ race_events.safety_car_state = "CLEAR" /\ race_events.hits = MaxHits

\* C20: the friction multiplier is within [0.5, 1.0] in every state: 1.0
\* before any change, within [0.70, 0.85] while it is wet and within
\* [0.85, 1.0] while it is dry.
C20_FrictionInRange ==
    race_events # << >>
    => ( /\ race_events.mu_weather >= 50
         /\ race_events.mu_weather <= 100
         /\ race_events.hits = 0 => race_events.mu_weather = 100
         /\ ~race_events.weather_dry
              => race_events.mu_weather >= 70 /\ race_events.mu_weather <= 85
         /\ race_events.weather_dry
              => race_events.mu_weather >= 85 /\ race_events.mu_weather <= 100 )

\* A track that is dry again after rain and has not recovered its full grip.
C20_Witness ==
    /\ race_events # << >>
    /\ car_states = << >>
    /\ race_events.weather_dry
    /\ race_events.mu_weather = 85
    /\ race_events.hits >= 3

\* C21: the safety-car phase of a RaceEvents object changes only along
\* CLEAR -> DEPLOYED -> RETURNING -> CLEAR.  A safety car is deployed only
\* from CLEAR and at most once in a call of check_lap_events, also when a
\* crash of that call asks for one; RETURNING is entered only from DEPLOYED
\* and STANDING is never entered.
C21_PhaseCycle ==
    [][ race_events # << >> /\ car_states = << >> =>
        LET a == race_events.safety_car_state
            b == race_events'.safety_car_state
            n == race_events.total_safety_cars
            m == race_events'.total_safety_cars
        IN  /\ b # "STANDING"
            /\ a # b => <<a, b>> \in { <<"CLEAR", "DEPLOYED">>,
                                        <<"DEPLOYED", "RETURNING">>,
                                        <<"RETURNING", "CLEAR">> }
            /\ m # n => a = "CLEAR" /\ b = "DEPLOYED" /\ m = n + 1 ]_vars

\* A car crashed while the safety car of the opening trial was out, and no
\* second safety car was deployed.
C21_Witness ==
    /\ race_events # << >>
    /\ car_states = << >>
    /\ Len(race_events.event_log) >= 2
    /\ race_events.event_log[1].event_type = "safety_car"
    /\ race_events.event_log[2].event_type = "crash"
    /\ race_events.safety_car_state = "DEPLOYED"
    /\ race_events.total_safety_cars = 1
    /\ race_events.hits < race_events.budget

\* C22: after a deployment with drawn duration d (3 <= d <= 8) the first
\* d - 1 calls of update_safety_car return false and leave the phase
\* DEPLOYED, the d-th enters RETURNING and returns true, and the (d+1)-th
\* goes back to CLEAR with safety_car_active false and returns true.  Called
\* with no safety car out, update_safety_car returns false and changes
\* nothing.
C22_DeploymentCountdown ==
    [][ ev_ret # << >> /\ ev_ret'.op = "update_safety_car" =>
        LET ev == race_events
            after == race_events'
            log == ev.event_log
            last == CHOOSE i \in DOMAIN log :
                        /\ log[i].event_type = "safety_car"
                        /\ \A j \in DOMAIN log :
                              j > i => log[j].event_type # "safety_car"
            d == log[last].laps
            k == ev_ret'.calls
        IN  IF ~ev.safety_car_active
            THEN ~ev_ret'.changed /\ after = ev
            ELSE /\ d \in 3..8
                 /\ k \in 1..(d + 1)
                 /\ k < d => /\ ~ev_ret'.changed
                             /\ after.safety_car_state = "DEPLOYED"
                             /\ after.safety_car_active
                 /\ k = d => /\ ev_ret'.changed
                             /\ after.safety_car_state = "RETURNING"
                 /\ k = d + 1 => /\ ev_ret'.changed
                                 /\ after.safety_car_state = "CLEAR"
                                 /\ ~after.safety_car_active ]_vars

\* The ninth call after a deployment for eight laps has cleared the track.
C22_Witness ==
    /\ ev_ret # << >>
    /\ ev_ret.op = "update_safety_car"
    /\ ev_ret.calls = 9
    /\ ev_ret.changed
    /\ race_events.safety_car_state = "CLEAR"
    /\ ~race_events.safety_car_active

\* C23: AttackMode.activate is all-or-nothing.  No call leaves the controller
\* in ACTIVATING.  A call that returns true takes it from AVAILABLE to
\* ACTIVE, lowers activations_remaining by exactly one and appends exactly
\* one activation record; a call that returns false leaves the state,
\* activations_remaining, the start time and the history as they were.
C23_ActivateAllOrNothing ==
    [][ /\ DOMAIN attack_modes # {}
        /\ am_ret'.op = "activate"
        /\ am_ret'.car \in AMCars
        =>
        LET am == attack_modes[am_ret'.car]
            after == attack_modes'[am_ret'.car]
        IN  /\ after.state # "ACTIVATING"
            /\ am_ret'.ok =>
                 /\ am.state = "AVAILABLE"
                 /\ after.state = "ACTIVE"
                 /\ after.activations_remaining = am.activations_remaining - 1
                 /\ Len(after.activation_history) = Len(am.activation_history) + 1
                 /\ SubSeq(after.activation_history, 1,
                           Len(am.activation_history)) = am.activation_history
            /\ ~am_ret'.ok =>
                 /\ after.state = am.state
                 /\ after.activations_remaining = am.activations_remaining
                 /\ after.current_activation_start_time =
                        am.current_activation_start_time
                 /\ after.activation_history = am.activation_history ]_vars

\* The second activation of a car has succeeded.
C23_Witness ==
    /\ DOMAIN attack_modes # {}
    /\ am_ret.op = "activate"
    /\ am_ret.ok
    /\ attack_modes[0].state = "ACTIVE"
    /\ attack_modes[0].activations_remaining = 0
    /\ Len(attack_modes[0].activation_history) = 2

\* C24: an update of an ACTIVE controller less than 240 s after its
\* activation leaves it ACTIVE, and an update 240 s or more after it moves it
\* to AVAILABLE if activations remain and to USED otherwise; an update of a
\* controller that is not ACTIVE changes nothing.  USED is never left, and
\* the controller is AVAILABLE only with activations_remaining > 0.
C24_ExpiryAfterDuration ==
    [][ DOMAIN attack_modes # {} =>
        \A c \in AMCars :
           LET am == attack_modes[c]
               after == attack_modes'[c]
               elapsed == am_ret'.race_time - am.current_activation_start_time
           IN  /\ am.state = "AVAILABLE" => am.activations_remaining > 0
               /\ after.state = "AVAILABLE" => after.activations_remaining > 0
               /\ am.state = "USED" => after.state = "USED"
               /\ am_ret'.op = "update_all" =>
                    /\ am.state = "ACTIVE" /\ elapsed < activation_duration =>
                          after.state = "ACTIVE"
                    /\ am.state = "ACTIVE" /\ elapsed >= activation_duration =>
                          after.state = IF am.activations_remaining > 0
                                        THEN "AVAILABLE" ELSE "USED"
                    /\ am.state # "ACTIVE" => after = am ]_vars

\* The last activation has run out at an update 240 s after it began.
C24_Witness ==
    /\ DOMAIN attack_modes # {}
    /\ am_ret.op = "update_all"
    /\ am_ret.race_time = 4800
    /\ attack_modes[0].state = "USED"
    /\ attack_modes[0].activation_history[2].activation_time = 2400

\* C25: attempt_overtake applies its minimum-differential test to the
\* boost-adjusted differential: for an attacker with attack mode (the
\* defender without) whose raw differential d has d < 5 <= d + 8 km/h the
\* attempt can succeed, the success draw being made with the probability of
\* the bucket of d + 8.
C25_MinimumTestOnAdjustedDifferential ==
    ( /\ ot_ret # << >>
      /\ ot_ret.op = "attempt_overtake"
      /\ ot_ret.attacker_has_attack_mode
      /\ ~ot_ret.defender_has_attack_mode
      /\ ot_ret.defender_speed > 0
      /\ ot_ret.result.speed_differential_kmh < min_speed_diff
      /\ ot_ret.result.speed_differential_kmh + attack_mode_speed_advantage
           >= min_speed_diff )
    => \E o \in attempt_overtake(<< >>, 0, 1, ot_ret.attacker_speed,
                                 ot_ret.defender_speed, ot_ret.gap_seconds,
                                 TRUE, FALSE, 0) :
          /\ o.result.success
          /\ get_overtaking_success_probability(
                 ot_ret.result.speed_differential_kmh, TRUE, FALSE) > 0

\* C26: RaceSimulator calls check_lap_events only on a step on which
\* race_state.current_lap differs from the lap checked last, never on the
\* first step of the race, and at most once for a value of current_lap: the
\* lap of a call is greater than the lap of every call before it.
C26_EventsOncePerLap ==
    [][ DOMAIN car_states # {} =>
        /\ rs_trace'.checked =>
             /\ race_state.race_time > 0
             /\ rs_loop.last_lap_checked # NoneT
             /\ race_state.current_lap # rs_loop.last_lap_checked
             /\ race_state.current_lap > rs_loop.last_lap_checked
             /\ rs_loop'.last_lap_checked = race_state.current_lap
        /\ ~rs_trace'.checked /\ rs_loop.last_lap_checked # NoneT =>
             rs_loop'.last_lap_checked = rs_loop.last_lap_checked
        /\ race_state'.current_lap >= race_state.current_lap ]_vars

\* The events of lap 3 have been asked for, those of laps 1 and 2 before.
C26_Witness ==
    /\ DOMAIN car_states # {}
    /\ rs_trace.checked
    /\ rs_loop.last_lap_checked = 3

\* C27: a car that check_lap_events reports as crashed is inactive before
\* the kinematic update of the same step: neither in that step nor in any
\* later one does its track distance, energy or lap change, it is never
\* reported as crashed again (the event log holds at most one crash of a
\* car) and it is never active again.
C27_CrashedCarIsFrozen ==
    [][ DOMAIN car_states # {} =>
        \A c \in RSCars :
           LET now == \E i \in DOMAIN rs_trace'.crashes : rs_trace'.crashes[i] = c
               before == c \in race_events.crashed_cars
               log == race_events'.event_log
           IN  /\ now \/ before =>
                    /\ ~car_states'[c].is_active
                    /\ car_states'[c].track_distance = car_states[c].track_distance
                    /\ car_states'[c].energy_remaining = car_states[c].energy_remaining
                    /\ car_states'[c].lap = car_states[c].lap
               /\ now => c \in race_events'.crashed_cars
               /\ before => ~now /\ c \in race_events'.crashed_cars
               /\ Cardinality({ i \in DOMAIN log :
                                  /\ log[i].event_type = "crash"
                                  /\ log[i].car_id = c }) <= 1 ]_vars

\* A car crashed in some step while half way round the track and with energy
\* left; the race has gone on since, the other car has crashed as well.
C27_Witness ==
    /\ DOMAIN car_states # {}
    /\ race_events.crashed_cars = RSCars
    /\ rs_trace.crashes = << >>
    /\ \E c \in RSCars :
          /\ car_states[c].energy_remaining > 0
          /\ car_states[c].track_distance > 0
          /\ ~car_states[c].is_active

\* C28: whenever the safety car is active at the kinematic update of a car,
\* the speed the update leaves the car with is at most 80/3.6 m/s, in
\* RaceSimulator (the flag _update_race_events has set in the same step) and
\* in FormulaEStrategySimulator (the flag of the step before, _check_events
\* running after the cars).
C28_SafetyCarSpeedLimit ==
    [][ /\ \A c \in DOMAIN car_states :
             ( /\ race_state'.safety_car_active
               /\ car_states[c].is_active
               /\ \A i \in DOMAIN rs_trace'.crashes : rs_trace'.crashes[i] # c )
             => car_states'[c].speed <= safety_car_speed
        /\ \A c \in DOMAIN fe_cars :
             ( fe_race_state.safety_car_active /\ fe_cars[c].active )
             => fe_cars'[c].speed <= fe_safety_car_speed ]_vars

\* A car of FormulaEStrategySimulator with attack mode on is held at the
\* limit behind the safety car.
C28_Witness ==
    /\ DOMAIN fe_cars # {}
    /\ fe_race_state.safety_car_active
    /\ \E c \in DOMAIN fe_cars :
          /\ fe_cars[c].active
          /\ fe_cars[c].attack_mode_active
          /\ fe_cars[c].speed = fe_safety_car_speed

\* C29: immediately after _update_positions, a car whose (lap,
\* track_distance) is greater than another car's has the smaller rank, cars
\* with equal (lap, track_distance) are ranked in ascending car id,
\* race_state.positions holds the same ranks and leader_id is the car of
\* rank 1.
C29_RanksFollowLapAndDistance ==
    ( DOMAIN car_states # {} /\ ~rs_loop.race_finished /\ ~rs_loop.raised )
    => \A sim \in { BeforeOvertaking(s1) :
                       s1 \in _update_race_events(AdvanceClock(RSSim)) } :
          LET Key(c) == <<sim.cars[c].lap, sim.cars[c].track_distance>>
          IN  /\ \A a, b \in RSCars :
                    /\ ( \/ Key(a)[1] > Key(b)[1]
                         \/ Key(a)[1] = Key(b)[1] /\ Key(a)[2] > Key(b)[2] )
                       => sim.cars[a].position < sim.cars[b].position
                    /\ ( Key(a) = Key(b) /\ a < b )
                       => sim.cars[a].position < sim.cars[b].position
              /\ \A c \in RSCars :
                    sim.race_state.positions[c] = sim.cars[c].position
              /\ sim.cars[sim.race_state.leader_id].position = 1

\* A step in which _update_positions finds car 1 a lap ahead of car 0 and
\* behind it on the track.
C29_Witness ==
    /\ DOMAIN car_states # {}
    /\ ~rs_loop.race_finished
    /\ ~rs_loop.raised
    /\ \E sim \in { BeforeOvertaking(s1) :
                       s1 \in _update_race_events(AdvanceClock(RSSim)) } :
          /\ sim.cars[1].lap > sim.cars[0].lap
          /\ sim.cars[1].track_distance < sim.cars[0].track_distance
          /\ sim.cars[1].position = 1
          /\ sim.race_state.leader_id = 1

\* C30: after a successful attempt in _check_overtaking the attacker and the
\* defender have exchanged ranks, and at the end of the step
\* CarState.position, race_state.positions and leader_id all show it:
\* race_state.positions[c] is car c's position for every car and the car
\* leader_id names has position 1.
C30_SwapReachesRaceState ==
    ( /\ DOMAIN car_states # {}
      /\ \E i \in DOMAIN rs_trace.attempts : rs_trace.attempts[i].success )
    => /\ \A c \in RSCars : race_state.positions[c] = car_states[c].position
       /\ car_states[race_state.leader_id].position = 1

\* C31: at the end of every RaceSimulator step in which at least one car is
\* active, race_state.current_lap is the greatest lap counter of the active
\* cars.
C31_CurrentLapIsMaxOfActive ==
    ( /\ DOMAIN car_states # {}
      /\ race_state.race_time > 0
      /\ ActiveCars(car_states) # {} )
    => /\ \A c \in ActiveCars(car_states) :
             car_states[c].lap <= race_state.current_lap
       /\ \E c \in ActiveCars(car_states) :
             car_states[c].lap = race_state.current_lap

\* C32: a car's lap counter goes up by exactly 1 on each RaceSimulator step
\* in which its track distance wraps past the track length and is unchanged
\* on every other step, the step on which the car retires included.
C32_LapCountsEveryWrap ==
    [][ DOMAIN car_states # {} =>
        \A c \in RSCars :
           LET updated == /\ car_states[c].is_active
                          /\ \A i \in DOMAIN rs_trace'.crashes :
                                rs_trace'.crashes[i] # c
               wrapped == /\ updated
                          /\ car_states[c].track_distance
                               + car_states'[c].speed * time_step >= RSTrackLength
           IN  car_states'[c].lap =
                  car_states[c].lap + (IF wrapped THEN 1 ELSE 0) ]_vars

\* C33: RaceSimulator stores its history snapshots at a fixed sampling
\* interval of 5 seconds of race time: no two stored snapshots are less than
\* 5 seconds of race time apart.
C33_SnapshotsFiveSecondsApart ==
    DOMAIN car_states # {}
    => \A i, j \in DOMAIN position_history :
          i < j => position_history[j].race_time
                     - position_history[i].race_time >= 50

\* C34: each stochastic component draws from its own random stream.  The
\* values RaceEvents sees in a run are the same whether or not
\* OvertakingModel draws in between: two runs with the same seed that
\* entered the race loop with the same generator see the same values in
\* their RaceEvents trials.  Constructing the cars' AttackMode objects
\* neither reseeds nor advances the generator the other components were
\* seeded with: the first draw after construction is the first value of the
\* stream of random_seed.
C34_IndependentStreams ==
    /\ \A i, j \in DOMAIN simulators :
          ( /\ simulators[i].phase = "finished"
            /\ simulators[j].phase = "finished"
            /\ simulators[i].random_seed = simulators[j].random_seed
            /\ simulators[i].car_draws = simulators[j].car_draws )
          => \A k \in DOMAIN simulators[i].events_draws
                      \cap DOMAIN simulators[j].events_draws :
                simulators[i].events_draws[k] = simulators[j].events_draws[k]
    /\ \A i \in DOMAIN simulators :
          ( /\ np_random # << >>
            /\ simulators[i].phase = "constructed"
            /\ \A j \in DOMAIN simulators :
                  j # i => simulators[j].phase \in {"none", "finished"} )
          => NextDraw(np_random)
               = NextDraw(np_random_seed(simulators[i].random_seed))

\* C35: a speed of zero never causes a division fault.  In RaceSimulator the
\* gap_to_leader of an active car with speed 0 is the sentinel 999.0 and no
\* overtake is attempted by an attacker with speed 0; attempt_overtake
\* returns a result, not a fault, for every defender speed >= 0, 0 included.
C35_ZeroSpeedNeverFaults ==
    /\ ( DOMAIN car_states # {} /\ race_state.race_time > 0 )
       => /\ \A c \in ActiveCars(car_states) :
                ( car_states[c].speed = 0 /\ c # race_state.leader_id )
                => car_states[c].gap_to_leader = GapSentinel
          /\ \A i \in DOMAIN rs_trace.attempts :
                car_states[rs_trace.attempts[i].attacker_id].speed > 0
    /\ ( ot_ret # << >> /\ ot_ret.op = "attempt_overtake"
         /\ ot_ret.defender_speed >= 0 )
       => ~ot_ret.result.raised

\* C36: each car's cumulative race_time advances with the race clock on
\* every step the car is active, so final_times gives every car the race
\* time at which it finished or retired, non-zero for a car that took at
\* least one step.
C36_CarTimeFollowsClock ==
    ( DOMAIN car_states # {} /\ race_state.race_time > 0 )
    => \A c \in RSCars :
          /\ car_states[c].race_time > 0
          /\ car_states[c].is_active
             => car_states[c].race_time = race_state.race_time

\* C37: in the result of FormulaEStrategySimulator finishers + dnfs is the
\* number of cars, every retired car has exactly one dnf_reason,
\* 'out_of_energy' or 'crash', and every active car has none, and the
\* 'crashes' counter (the crash events of the event log) is the number of
\* cars whose dnf_reason is 'crash'.
C37_ResultCountersAgree ==
    DOMAIN fe_cars # {}
    => LET finishers == Cardinality({ c \in FECars : fe_cars[c].active })
           dnfs == Cardinality({ c \in FECars : ~fe_cars[c].active })
           crashes == Cardinality({ i \in DOMAIN fe_event_log :
                                      fe_event_log[i].type = "crash" })
           crashed == { c \in FECars : fe_cars[c].dnf_reason = "crash" }
       IN  /\ finishers + dnfs = FENumCars
           /\ \A c \in FECars :
                 IF fe_cars[c].active
                 THEN fe_cars[c].dnf_reason = "None"
                 ELSE fe_cars[c].dnf_reason \in {"out_of_energy", "crash"}
           /\ crashes = Cardinality(crashed)
           /\ \A c \in crashed :
                 \E i \in DOMAIN fe_event_log :
                    /\ fe_event_log[i].type = "crash"
                    /\ fe_event_log[i].car_id = c

\* A race in which one car has crashed and another has run out of energy.
C37_Witness ==
    /\ DOMAIN fe_cars # {}
    /\ \E c \in FECars : fe_cars[c].dnf_reason = "crash"
    /\ \E c \in FECars : fe_cars[c].dnf_reason = "out_of_energy"
    /\ \E c \in FECars : fe_cars[c].active

\* C38: at the end of every RaceSimulator step the rank order of the active
\* cars agrees with the total distance they have covered: a car that crossed
\* the start/finish line in that step is not ranked behind a car that
\* started the step on the same lap and has not yet crossed the line.
C38_RanksAgreeWithDistanceCovered ==
    [][ DOMAIN car_states # {} =>
        \A a, b \in RSCars :
           ( /\ car_states'[a].is_active
             /\ car_states'[b].is_active
             /\ car_states[a].lap = car_states[b].lap
             /\ car_states'[a].lap = car_states[a].lap + 1
             /\ car_states'[b].lap = car_states[b].lap )
           => /\ car_states'[a].position < car_states'[b].position
              /\ race_state'.positions[a] < race_state'.positions[b] ]_vars

\* C39: during RaceSimulator.run_race no car's attack mode ever becomes
\* ACTIVE, the orchestrator calling update_all only: in every step each
\* updated car consumes the energy of the 200 kW baseline,
\* activations_remaining stays at 2, the activation history stays empty, and
\* every overtaking attempt is made with both attack-mode flags false.
C39_AttackModeNeverActive ==
    [][ DOMAIN car_states # {} =>
        /\ \A c \in RSCars :
              /\ rs_attack_modes'[c].state = "AVAILABLE"
              /\ rs_attack_modes'[c].activations_remaining = 2
              /\ rs_attack_modes'[c].activation_history = << >>
              /\ get_power_kw(rs_attack_modes'[c]) = 200
              /\ ( /\ car_states[c].is_active
                   /\ \A i \in DOMAIN rs_trace'.crashes :
                         rs_trace'.crashes[i] # c )
                 => LET energy == car_states[c].energy_remaining
                                    - 200 * time_step
                    IN  car_states'[c].energy_remaining =
                           IF energy <= 0 THEN 0 ELSE energy
        /\ \A i \in DOMAIN rs_trace'.attempts :
              /\ ~rs_trace'.attempts[i].attacker_has_attack_mode
              /\ ~rs_trace'.attempts[i].defender_has_attack_mode ]_vars

\* A step of the race in which an overtaking attempt was made, the cars'
\* attack modes untouched since construction.
C39_Witness ==
    /\ DOMAIN car_states # {}
    /\ race_state.race_time > 0
    /\ rs_trace.attempts # << >>
    /\ \A c \in RSCars :
          /\ car_states[c].is_active
          /\ car_states[c].energy_remaining < initial_energy
          /\ rs_attack_modes[c].state = "AVAILABLE"
          /\ rs_attack_modes[c].activations_remaining = max_activations

\* C40: RaceEvents.check_lap_events reports weather_changed = true only when
\* the weather actually changed in that call (dry/wet flipped or the friction
\* multiplier changed); a call made while wet in which the return-to-dry
\* draw fails reports weather_changed = false.
C40_WeatherChangedOnlyOnChange ==
    [][ ( /\ ev_ret # << >>
          /\ ev_ret'.op = "check_lap_events"
          /\ ev_ret'.weather_changed )
        => \/ race_events'.weather_dry # race_events.weather_dry
           \/ race_events'.mu_weather # race_events.mu_weather ]_vars

====
